---- MODULE Spec2Model ----
(***************************************************************************)
(* NuForm Invoicer (src/app.py): the invoice form (line items, VAT rate,   *)
(* on-screen totals, drafts), generate_pdf (column widths, the portrait    *)
(* auto-fit shrink loop, table rendering and PDF totals), the invoice      *)
(* counter and the update check.                                           *)
(*                                                                         *)
(* Texts are sequences of one-character strings, so that parsing and       *)
(* formatting are computed character by character as the code does.       *)
(* Decimals are records [ok, neg, coef, scale] standing for                *)
(* (-1)^neg * coef * 10^(-scale), the representation of decimal.Decimal    *)
(* for the values the form can hold; ok = FALSE stands for a raised        *)
(* decimal.InvalidOperation.                                               *)
(***************************************************************************)
EXTENDS Integers, Sequences, FiniteSets, TLC

(***************************************************************************)
(* Bounds of the model.                                                    *)
(***************************************************************************)
MaxLines == 2

(***************************************************************************)
(* Generic helpers.                                                        *)
(***************************************************************************)
Max(a, b) == IF a >= b THEN a ELSE b

Min(a, b) == IF a <= b THEN a ELSE b

Abs(a) == IF a < 0 THEN 0 - a ELSE a

RECURSIVE Pow10(_)
Pow10(n) == IF n = 0 THEN 1 ELSE 10 * Pow10(n - 1)

Rep(c, n) == [i \in 1..n |-> c]

RECURSIVE SumTo(_, _)
SumTo(s, n) == IF n = 0 THEN 0 ELSE SumTo(s, n - 1) + s[n]

SumSeq(s) == SumTo(s, Len(s))

(***************************************************************************)
(* Texts: str.strip, str.replace(c, ""), digits.                           *)
(***************************************************************************)
DigitChars == <<"0", "1", "2", "3", "4", "5", "6", "7", "8", "9">>

IsDigit(c) == \E i \in 1..10 : DigitChars[i] = c

DigitVal(c) == (CHOOSE i \in 1..10 : DigitChars[i] = c) - 1

RECURSIVE LStrip(_)
LStrip(s) == IF s # <<>> /\ Head(s) = " " THEN LStrip(Tail(s)) ELSE s

RECURSIVE RStrip(_)
RStrip(s) ==
    IF s # <<>> /\ s[Len(s)] = " " THEN RStrip(SubSeq(s, 1, Len(s) - 1)) ELSE s

Strip(s) == RStrip(LStrip(s))

RemoveChar(s, c) == SelectSeq(s, LAMBDA x : x # c)

RECURSIVE NatToText(_)
NatToText(n) ==
    IF n < 10 THEN <<DigitChars[n + 1]>>
    ELSE NatToText(n \div 10) \o <<DigitChars[(n % 10) + 1]>>

RECURSIVE DigitsToNat(_)
DigitsToNat(s) ==
    IF s = <<>> THEN 0
    ELSE 10 * DigitsToNat(SubSeq(s, 1, Len(s) - 1)) + DigitVal(s[Len(s)])

(***************************************************************************)
(* decimal.Decimal.                                                        *)
(***************************************************************************)
Dec(neg, coef, scale) == [ok |-> TRUE, neg |-> neg, coef |-> coef, scale |-> scale]

InvalidOperation == [ok |-> FALSE, neg |-> FALSE, coef |-> 0, scale |-> 0]

\* Decimal(text): optional sign, digits with at most one point and at least
\* one digit, surrounding whitespace ignored; anything else raises
\* InvalidOperation.  (Exponents, NaN and Infinity use letters that the
\* texts of the model do not contain.)
DecimalOfText(t) ==
    LET s    == Strip(t)
        neg  == s # <<>> /\ Head(s) = "-"
        body == IF neg THEN Tail(s) ELSE s
        dots == {i \in 1..Len(body) : body[i] = "."}
        ip   == IF dots = {} THEN body
                ELSE SubSeq(body, 1, (CHOOSE i \in dots : TRUE) - 1)
        fp   == IF dots = {} THEN <<>>
                ELSE SubSeq(body, (CHOOSE i \in dots : TRUE) + 1, Len(body))
    IN  IF /\ Cardinality(dots) <= 1
           /\ Len(ip) + Len(fp) >= 1
           /\ \A i \in 1..Len(ip) : IsDigit(ip[i])
           /\ \A i \in 1..Len(fp) : IsDigit(fp[i])
        THEN Dec(neg, DigitsToNat(ip \o fp), Len(fp))
        ELSE InvalidOperation

\* str(Decimal) for a decimal with scale >= 0 (no exponent notation).
TextOfDecimal(d) ==
    LET p    == Pow10(d.scale)
        ip   == NatToText(d.coef \div p)
        fd   == NatToText(d.coef % p)
        fp   == Rep("0", d.scale - Len(fd)) \o fd
        sign == IF d.neg THEN <<"-">> ELSE <<>>
    IN  IF d.scale = 0 THEN sign \o ip ELSE sign \o ip \o <<".">> \o fp

IsZero(d) == d.coef = 0

SignedCoef(d) == IF d.neg THEN 0 - d.coef ELSE d.coef

\* a * b: exact.
DecMul(a, b) == Dec(a.neg # b.neg, a.coef * b.coef, a.scale + b.scale)

\* a + b: exact, at the larger scale; a zero sum is -0 only if both are negative.
DecAdd(a, b) ==
    LET sc == Max(a.scale, b.scale)
        v  == SignedCoef(a) * Pow10(sc - a.scale) + SignedCoef(b) * Pow10(sc - b.scale)
    IN  Dec(IF v = 0 THEN a.neg /\ b.neg ELSE v < 0, Abs(v), sc)

DecNeg(a) == Dec(~a.neg, a.coef, a.scale)

DecSub(a, b) == DecAdd(a, DecNeg(b))

\* Numerical equality (Decimal.__eq__): 1.0 == 1.00, -0 == 0.
DecEq(a, b) == IsZero(DecSub(a, b))

\* n / d rounded to the nearest integer, ties away from zero (ROUND_HALF_UP),
\* for n >= 0, d > 0.
RoundHalfUpDiv(n, d) == (n \div d) + (IF 2 * (n % d) >= d THEN 1 ELSE 0)

\* The same with ties to the even neighbour (ROUND_HALF_EVEN, the context default).
RoundHalfEvenDiv(n, d) ==
    LET q == n \div d
        r == n % d
    IN  IF 2 * r > d \/ (2 * r = d /\ q % 2 = 1) THEN q + 1 ELSE q

\* d.quantize(Decimal('0.01'), rounding=ROUND_HALF_UP), for places = 2.
QuantizeHalfUp(d, places) ==
    IF d.scale <= places
    THEN Dec(d.neg, d.coef * Pow10(places - d.scale), places)
    ELSE Dec(d.neg, RoundHalfUpDiv(d.coef, Pow10(d.scale - places)), places)

\* d.quantize(Decimal('0.0001')): the context's rounding, ROUND_HALF_EVEN.
QuantizeHalfEven(d, places) ==
    IF d.scale <= places
    THEN Dec(d.neg, d.coef * Pow10(places - d.scale), places)
    ELSE Dec(d.neg, RoundHalfEvenDiv(d.coef, Pow10(d.scale - places)), places)

\* A quotient cut to the given places instead of rounded (ROUND_DOWN), kept
\* for comparison with the half-up quotient below.
DivQuantizeDown(a, b, places) ==
    LET e == b.scale + places - a.scale
        n == IF e >= 0 THEN a.coef * Pow10(e) ELSE a.coef
        d == IF e >= 0 THEN b.coef ELSE b.coef * Pow10(0 - e)
    IN  Dec(a.neg # b.neg, n \div d, places)

\* (a / b).quantize(Decimal('0.01'), rounding=ROUND_HALF_UP) for b # 0.  The
\* quotient is a / b rounded to 28 significant digits; a tie or a quotient
\* within 10^-26 of a tie has a divisor-bounded denominator, so rounding the
\* exact quotient gives the same cents.
DivQuantizeHalfUp(a, b, places) ==
    LET e == b.scale + places - a.scale
        n == IF e >= 0 THEN a.coef * Pow10(e) ELSE a.coef
        d == IF e >= 0 THEN b.coef ELSE b.coef * Pow10(0 - e)
    IN  Dec(a.neg # b.neg, RoundHalfUpDiv(n, d), places)

(***************************************************************************)
(* Module-level configuration and helpers of src/app.py.                   *)
(***************************************************************************)
\* DEFAULT_VAT_RATE = Decimal("0.15")
DEFAULT_VAT_RATE == Dec(FALSE, 15, 2)

Hundred == Dec(FALSE, 100, 0)

One == Dec(FALSE, 1, 0)

ZeroCents == Dec(FALSE, 0, 2)

\* money_to_decimal(s): strip, drop the currency prefix "R" and the thousands
\* separators, raise InvalidOperation on an empty remainder, else Decimal(clean).
money_to_decimal(s) ==
    LET clean == RemoveChar(RemoveChar(Strip(s), "R"), ",")
    IN  IF clean = <<>> THEN InvalidOperation ELSE DecimalOfText(clean)

\* The Decimal that fmt_money(x) prints after the currency prefix.
fmt_money(x) == QuantizeHalfUp(x, 2)

\* f"{(rate * 100):.0f}": the percentage shown in the VAT entry (format rounds
\* half to even).
PercentText(rate) ==
    LET p == DecMul(rate, Hundred)
        n == RoundHalfEvenDiv(p.coef, Pow10(p.scale))
    IN  (IF p.neg /\ n # 0 THEN <<"-">> ELSE <<>>) \o NatToText(n)

\* int(self.vat_rate * 100): truncation toward zero.
PercentInt(rate) ==
    LET p == DecMul(rate, Hundred)
        n == p.coef \div Pow10(p.scale)
    IN  IF p.neg THEN 0 - n ELSE n

(***************************************************************************)
(* Inputs of the form model: what the user types, the services sheet and   *)
(* the draft files that can be opened.                                     *)
(***************************************************************************)
Empty == <<>>

QtyTexts == { <<"2">>, <<"a", "b", "c">> }

PriceTexts == { <<"R", "1", "0", "0", ".", "0", "0">> }

VatTexts == { <<"1", "5">>, <<"0">>, <<"a", "b", "c">> }

InvoiceDate == <<"2", "0", "2", "5", "-", "0", "8", "-", "0", "1">>

\* Rows of the services sheet: Service, Tariff Code, NAPPI Code and Price as
\* str() of the cell.
ServiceSheet ==
    { [Service |-> <<"a", "b">>, Tariff |-> <<"0", "1", "9", "0">>,
       NAPPI |-> Empty, Price |-> <<"1", "2", ".", "3", "4", "5">>] }

\* A line of the table: the text held by each widget of the row.
NewLine(date) ==
    [Date |-> date, Service |-> Empty, ICD10 |-> Empty, ICD10Sec |-> Empty,
     Tariff |-> Empty, NAPPI |-> Empty, Qty |-> <<"1">>, Price |-> Empty,
     Total |-> Empty]

\* Draft files: "vat_rate" (absent, or the Decimal of str(float)),
\* "min_portrait_font" (absent, or the float save_draft wrote), "invoice_no"
\* (absent or empty, or a text) and "lines", each line holding every field
\* save_draft wrote, Total included.
DraftLine(qty, price, total) ==
    [NewLine(InvoiceDate) EXCEPT !.Qty = qty, !.Price = price, !.Total = total]

DraftFiles ==
    { [has_vat |-> FALSE, vat_rate |-> DEFAULT_VAT_RATE,
       has_min_font |-> FALSE, min_portrait_font |-> 62, invoice_no |-> Empty,
       lines |-> <<>>],
      [has_vat |-> TRUE, vat_rate |-> Dec(FALSE, 0, 1),
       has_min_font |-> TRUE, min_portrait_font |-> 62, invoice_no |-> Empty,
       lines |-> << DraftLine(<<"2">>, <<"R", "1", "0", "0", ".", "0", "0">>,
                              <<"2", "0", "0", ".", "0", "0">>) >>],
      [has_vat |-> TRUE, vat_rate |-> DEFAULT_VAT_RATE,
       has_min_font |-> TRUE, min_portrait_font |-> 62, invoice_no |-> Empty,
       lines |-> << DraftLine(<<"a", "b", "c">>, <<"R", "1", "0", "0", ".", "0", "0">>,
                              <<"0", ".", "0", "0">>) >>] }

(***************************************************************************)
(* State.                                                                  *)
(***************************************************************************)
VARIABLES
    \* InvoiceApp: the form
    lines,                  \* self.lines: the widgets' texts, row by row
    vat_rate,               \* self.vat_rate
    vat_var,                \* self.vat_var: text of the VAT entry
    ui_ready,               \* self.ui_ready
    labels,                 \* ex_lbl, vat_lbl, total_lbl: the amounts they show
    min_portrait_font_var,  \* self.min_portrait_font_var, in tenths of a point
    invoice_no,             \* text of the read-only "Invoice No" entry
    \* invoice_counter.json
    invoice_counter,        \* what load_invoice_counter() returns
    \* check_for_updates_windows
    upd_pc,                 \* position inside the call ("idle" outside it)
    manifest,               \* latest, win_url and win_sha read from the manifest
    confirmed,              \* what messagebox.askyesno returned
    dl_hash,                \* SHA-256 of the file at dl_path, or NoFile
    installer_started,      \* subprocess.Popen returned
    app_closed,             \* root_widget.destroy() was called
    upd_messages,           \* message boxes shown by the call, in order
    \* generate_pdf: its locals and the document being drawn
    pc,                     \* position inside generate_pdf ("idle" outside it)
    portrait, compact,      \* portrait_var, compact_var as read by the call
    rows,                   \* rows built from the widgets
    min_font_portrait,      \* clamped minimum table font, tenths of a point
    table_font,             \* tenths of a point
    row_h,                  \* hundredths of a millimetre
    l_margin, r_margin,     \* pdf.l_margin, pdf.r_margin, millimetres
    col_w,                  \* column widths, width units
    cur_y,                  \* pdf.get_y(), hundredths of a millimetre
    iterations,             \* executions of the shrink loop's body so far
    drawn,                  \* what has been drawn of the table, in order
    pdf_totals,             \* gross, ex and vat printed in the totals line
    messages                \* message boxes shown by generate_pdf, in order

formVars == <<lines, vat_rate, vat_var, ui_ready, labels, min_portrait_font_var,
              invoice_no>>

pdfVars == <<pc, portrait, compact, rows, min_font_portrait, table_font, row_h,
             l_margin, r_margin, col_w, cur_y, iterations, drawn, pdf_totals,
             messages>>

updVars == <<upd_pc, manifest, confirmed, dl_hash, installer_started, app_closed,
             upd_messages>>

vars == <<formVars, pdfVars, invoice_counter, updVars>>

(***************************************************************************)
(* Line totals and on-screen totals.                                       *)
(***************************************************************************)
\* update_total, lines 832-842: the text written into the Total entry.
LineTotalText(fields) ==
    LET qty        == money_to_decimal(fields.Qty)
        price_incl == money_to_decimal(fields.Price)
        total      == IF qty.ok /\ price_incl.ok
                      THEN QuantizeHalfUp(DecMul(qty, price_incl), 2)
                      ELSE ZeroCents
    IN  TextOfDecimal(total)

\* A recomputation that leaves the Total entry alone when the quantity or
\* the price does not parse, kept for comparison with update_total.
StaleTotal(fields) ==
    IF money_to_decimal(fields.Qty).ok /\ money_to_decimal(fields.Price).ok
    THEN [fields EXCEPT !.Total = LineTotalText(fields)]
    ELSE fields

\* update_total, lines 831-842: the row after the Total entry is rewritten.
update_total(fields) == [fields EXCEPT !.Total = LineTotalText(fields)]

\* The loop of recalc_totals and of both PDF branches: the sum of the Total
\* texts that parse, the others skipped.
RECURSIVE GrossOf(_)
GrossOf(totalTexts) ==
    IF totalTexts = <<>> THEN ZeroCents
    ELSE LET n    == Len(totalTexts)
             rest == GrossOf(SubSeq(totalTexts, 1, n - 1))
             d    == money_to_decimal(totalTexts[n])
         IN  IF d.ok THEN DecAdd(rest, d) ELSE rest

TotalTexts(ls) == [i \in 1..Len(ls) |-> ls[i].Total]

\* The tax split; raised = TRUE stands for the decimal.DivisionByZero (or
\* InvalidOperation for 0/0) that leaves the handler when 1 + rate = 0,
\* divided tells whether the division was evaluated.
TaxFromEx(gross, ex) ==
    [ex |-> ex, vat |-> QuantizeHalfUp(DecSub(gross, ex), 2),
     divided |-> TRUE, raised |-> FALSE]

TaxDivided(gross, den) ==
    IF IsZero(den)
    THEN [ex |-> gross, vat |-> ZeroCents, divided |-> TRUE, raised |-> TRUE]
    ELSE TaxFromEx(gross, DivQuantizeHalfUp(gross, den, 2))

TaxSplit(gross, rate, isZero) ==
    IF isZero
    THEN [ex |-> gross, vat |-> ZeroCents, divided |-> FALSE, raised |-> FALSE]
    ELSE TaxDivided(gross, DecAdd(One, rate))

\* recalc_totals, lines 858-863: if self.vat_rate == 0.
RecalcTax(gross, rate) == TaxSplit(gross, rate, IsZero(rate))

\* recalc_totals, lines 865-867: the labels (unchanged if the division raised).
ShowTotals(gross, t, rate, old) ==
    IF t.raised THEN old
    ELSE [ex |-> fmt_money(t.ex), vat |-> fmt_money(t.vat),
          total |-> fmt_money(gross), pct |-> PercentInt(rate),
          divided |-> t.divided]

RecalcFrom(gross, rate, old) == ShowTotals(gross, RecalcTax(gross, rate), rate, old)

\* recalc_totals: the labels after the call (unchanged when ui_ready is false).
recalc_totals(ls, rate, ready, old) ==
    IF ~ready THEN old ELSE RecalcFrom(GrossOf(TotalTexts(ls)), rate, old)

\* Writing a text into a widget by delete(0, END) + insert(0, val): a ttk
\* entry or combobox in state 'readonly' ignores both commands (update_total
\* and _assign_peek_invoice_number switch to 'normal' first for that reason).
InsertInto(readonly, old, val) == IF readonly THEN old ELSE val

\* add_line_item, lines 717-787: the new row's texts; update_total runs only
\* when ui_ready.
add_line_item(preset, hasPreset, ready) ==
    LET fresh  == NewLine(InvoiceDate)
        filled == IF ~hasPreset THEN fresh
                  ELSE [Date     |-> preset.Date,
                        Service  |-> InsertInto(TRUE, fresh.Service, preset.Service),
                        ICD10    |-> InsertInto(FALSE, fresh.ICD10, preset.ICD10),
                        ICD10Sec |-> InsertInto(FALSE, fresh.ICD10Sec, preset.ICD10Sec),
                        Tariff   |-> InsertInto(FALSE, fresh.Tariff, preset.Tariff),
                        NAPPI    |-> InsertInto(FALSE, fresh.NAPPI, preset.NAPPI),
                        Qty      |-> InsertInto(FALSE, fresh.Qty, preset.Qty),
                        Price    |-> InsertInto(FALSE, fresh.Price, preset.Price),
                        Total    |-> InsertInto(TRUE, fresh.Total, preset.Total)]
    IN  IF ready THEN update_total(filled) ELSE filled

\* populate_service_data, lines 805-829, for a service found in the sheet.
populate_service_data(fields, r) ==
    LET price_dec == money_to_decimal(r.Price)
        priced    == IF price_dec.ok THEN TextOfDecimal(price_dec) ELSE fields.Price
    IN  update_total([fields EXCEPT !.Service = r.Service, !.Tariff = r.Tariff,
                                    !.NAPPI = r.NAPPI, !.Price = priced])

RemoveAt(s, i) == SubSeq(s, 1, i - 1) \o SubSeq(s, i + 1, Len(s))

(***************************************************************************)
(* Text measurement.  Widths are exact, in units of 1/3600000 mm, in which *)
(* a glyph of w/1000 em at a font of f tenths of a point measures          *)
(* w * f * 127 (1 pt = 25.4/72 mm) and a weight share of a whole number of *)
(* millimetres is whole.  Heights are in hundredths of a millimetre, font  *)
(* sizes in tenths of a point, so the steps 0.2 and 0.08 are exact; the    *)
(* code's binary floats differ from these values by less than 10^-14 and   *)
(* take the same number of steps.                                          *)
(***************************************************************************)
UnitsPerMm == 3600000

\* Helvetica glyph widths (FPDF core font metrics), in 1/1000 em.
CharWidth(c) ==
    CASE IsDigit(c) -> 556
      [] c \in {" ", ".", ","} -> 278
      [] c = "-" -> 333
      [] c = "R" -> 722
      [] c \in {"a", "b"} -> 556
      [] c = "c" -> 500
      [] c = "i" -> 222
      [] OTHER -> 556

\* pdf.get_string_width(t) after pdf.set_font("Helvetica", '', font_size).
StringWidth(t, font_size) ==
    SumSeq([i \in 1..Len(t) |-> CharWidth(t[i])]) * font_size * 127

\* str.split(): the maximal runs of non-blank characters.
RECURSIVE SplitWords(_, _)
SplitWords(s, cur) ==
    IF s = <<>> THEN (IF cur = <<>> THEN <<>> ELSE <<cur>>)
    ELSE IF Head(s) = " "
         THEN (IF cur = <<>> THEN <<>> ELSE <<cur>>) \o SplitWords(Tail(s), <<>>)
         ELSE SplitWords(Tail(s), Append(cur, Head(s)))

\* wrapped_height, lines 1051-1057 and 1062-1068: character-by-character
\* packing.  cur_w is get_string_width(cur), which grows by the glyph's width
\* with each character appended; the result is <<cur, lines, widest>>,
\* widest being the greatest width cur has had, the width of the widest
\* line counted.
RECURSIVE PackChars(_, _, _, _, _, _, _)
PackChars(chs, cur, cur_w, nlines, widest, max_w, font_size) ==
    IF chs = <<>> THEN <<cur, nlines, widest>>
    ELSE IF cur_w + StringWidth(<<Head(chs)>>, font_size) <= max_w
    THEN PackChars(Tail(chs), Append(cur, Head(chs)),
                   cur_w + StringWidth(<<Head(chs)>>, font_size),
                   nlines,
                   Max(widest, cur_w + StringWidth(<<Head(chs)>>, font_size)),
                   max_w, font_size)
    ELSE PackChars(Tail(chs), <<Head(chs)>>, StringWidth(<<Head(chs)>>, font_size),
                   nlines + 1,
                   Max(widest, StringWidth(<<Head(chs)>>, font_size)),
                   max_w, font_size)

\* A word loop that starts a new line for a word that does not fit as a
\* whole, never packing it by characters; kept for comparison.
RECURSIVE PackWordsWhole(_, _, _, _, _, _)
PackWordsWhole(words, cur, nlines, widest, max_w, font_size) ==
    IF words = <<>> THEN <<nlines, widest>>
    ELSE LET w == Head(words)
             t == Strip(cur \o <<" ">> \o w)
         IN  IF StringWidth(t, font_size) <= max_w
             THEN PackWordsWhole(Tail(words), t, nlines,
                                 Max(widest, StringWidth(t, font_size)), max_w, font_size)
             ELSE PackWordsWhole(Tail(words), w, nlines + 1,
                                 Max(widest, StringWidth(w, font_size)), max_w, font_size)

\* wrapped_height, lines 1060-1075: the loop over the words; the result is
\* <<lines, widest>>.
RECURSIVE PackWords(_, _, _, _, _, _)
PackWords(words, cur, nlines, widest, max_w, font_size) ==
    IF words = <<>> THEN <<nlines, widest>>
    ELSE LET w == Head(words)
             r == PackChars(w, cur, StringWidth(cur, font_size), nlines, widest,
                            max_w, font_size)
             t == Strip(cur \o <<" ">> \o w)
         IN  IF StringWidth(w, font_size) > max_w
             THEN PackWords(Tail(words), r[1], r[2], r[3], max_w, font_size)
             ELSE IF StringWidth(t, font_size) <= max_w
             THEN PackWords(Tail(words), t, nlines,
                            Max(widest, StringWidth(t, font_size)), max_w, font_size)
             ELSE PackWords(Tail(words), w, nlines + 1,
                            Max(widest, StringWidth(w, font_size)), max_w, font_size)

\* max_w = max(0.1, col_width - 1.6), line 1040.
UsableWidth(col_width) ==
    Max(UnitsPerMm \div 10, col_width - 16 * (UnitsPerMm \div 10))

\* Font sizes of a single cell are held in thousandths of a point.
FontUnitsPerTenth == 100

\* base_font * scale of line 1033, scale being usable / width(text) and
\* width(text) the glyph widths times base_font times 127: the base font
\* cancels, leaving usable / (127 * glyph widths) tenths of a point, here
\* rounded down in thousandths.
ScaledFont(text, usable) ==
    ((usable \div 127) * FontUnitsPerTenth)
        \div SumSeq([i \in 1..Len(text) |-> CharWidth(text[i])])

\* fitted_font_size_for_text(text, base_font, avail_w, pad=1.6, min_font),
\* lines 1025-1033; base_font and min_font in tenths of a point, the result
\* in thousandths.  avail_w - pad is the usable width of wrapped_height, the
\* pad being 1.6 in every call.
fitted_font_size_for_text(text, base_font, avail_w, min_font) ==
    IF text = <<>> THEN base_font * FontUnitsPerTenth
    ELSE IF StringWidth(text, base_font) <= UsableWidth(avail_w)
    THEN base_font * FontUnitsPerTenth
    ELSE Max(min_font * FontUnitsPerTenth, ScaledFont(text, UsableWidth(avail_w)))

\* The lines wrapped_height counts for a text that is not empty, lines
\* 1041-1075: <<lines, widest>>.
PackedText(text, col_width, font_size) ==
    IF SplitWords(text, <<>>) = <<>>
    THEN SubSeq(PackChars(text, <<>>, 0, 1, 0, UsableWidth(col_width), font_size), 2, 3)
    ELSE PackWords(SplitWords(text, <<>>), <<>>, 1, 0, UsableWidth(col_width), font_size)

\* wrapped_height(text, col_width, line_hh, font_size), lines 1035-1076.
wrapped_height(text, col_width, line_hh, font_size) ==
    LET pad == 80
    IN  IF text = <<>> THEN line_hh
        ELSE PackedText(text, col_width, font_size)[1] * line_hh + pad

(***************************************************************************)
(* Column widths.  Columns are numbered from 0 as in the code.             *)
(***************************************************************************)
At(s, i) == s[i + 1]

NAPPI_COL == 5

UNIT_PRICE_COL == 7

WRAP_COLS == {1, 2, 3}

portrait_weights == <<11, 18, 34, 34, 8, 12, 8, 12, 13>>

landscape_weights == <<9, 18, 38, 38, 7, 13, 6, 11, 10>>

NappiSamples == { Rep("0", 10) }

UnitPriceSamples == { <<"R">> \o Rep("0", 7) \o <<".", "0", "0">>,
                      Rep("0", 7) \o <<".", "0", "0">> }

\* [avail_w * (w / total_w) for w in weights]; the weights are held times 10.
SplitByWeight(avail_mm, weights) ==
    [i \in 1..Len(weights) |->
        avail_mm * weights[i] * (UnitsPerMm \div SumSeq(weights))]

SetMax(S) == CHOOSE x \in S : \A y \in S : y <= x

\* A loop over the donors that takes whatever a donor has, no floor kept;
\* for comparison.
RECURSIVE TakeFromDonorsNoFloor(_, _, _, _)
TakeFromDonorsNoFloor(widths, donors, deficit, min_keep) ==
    IF donors = <<>> THEN widths
    ELSE LET d     == Head(donors)
             spare == Max(At(widths, d), 0)
             take  == Min(spare, deficit)
             given == [widths EXCEPT ![d + 1] = @ - take]
         IN  IF spare <= 0
             THEN TakeFromDonorsNoFloor(widths, Tail(donors), deficit, min_keep)
             ELSE IF deficit - take <= 0 THEN given
             ELSE TakeFromDonorsNoFloor(given, Tail(donors), deficit - take, min_keep)

\* ensure_min_col_width, lines 1013-1021: the loop over the donors.
RECURSIVE TakeFromDonors(_, _, _, _)
TakeFromDonors(widths, donors, deficit, min_keep) ==
    IF donors = <<>> THEN widths
    ELSE LET d     == Head(donors)
             spare == Max(At(widths, d) - min_keep, 0)
             take  == Min(spare, deficit)
             given == [widths EXCEPT ![d + 1] = @ - take]
         IN  IF spare <= 0
             THEN TakeFromDonors(widths, Tail(donors), deficit, min_keep)
             ELSE IF deficit - take <= 0 THEN given
             ELSE TakeFromDonors(given, Tail(donors), deficit - take, min_keep)

\* A protection that takes the whole need from the donors at every call,
\* kept for comparison.
ensure_min_col_width_greedy(col_widths, target_idx, sample_texts, donors, min_keep, font_size, pad) ==
    LET need  == SetMax({StringWidth(t, font_size) : t \in sample_texts}) + pad
        taken == TakeFromDonors(col_widths, donors, need, min_keep)
    IN  [taken EXCEPT ![target_idx + 1] = Max(@, need)]

\* A protection that widens the target and takes nothing from the donors,
\* kept for comparison.
ensure_min_col_width_unpaid(col_widths, target_idx, sample_texts, donors, min_keep, font_size, pad) ==
    LET need == SetMax({StringWidth(t, font_size) : t \in sample_texts}) + pad
    IN  [col_widths EXCEPT ![target_idx + 1] = Max(@, need)]

\* A protection that widens the target only by what the donors gave, kept
\* for comparison.
ensure_min_col_width_given(col_widths, target_idx, sample_texts, donors, min_keep, font_size, pad) ==
    LET need  == SetMax({StringWidth(t, font_size) : t \in sample_texts}) + pad
        taken == TakeFromDonors(col_widths, donors,
                                need - At(col_widths, target_idx), min_keep)
    IN  IF At(col_widths, target_idx) >= need THEN col_widths
        ELSE [taken EXCEPT ![target_idx + 1] =
                 @ + SumSeq(col_widths) - SumSeq(taken)]

\* ensure_min_col_width, lines 1006-1023.
ensure_min_col_width(col_widths, target_idx, sample_texts, donors, min_keep, font_size, pad) ==
    LET need  == SetMax({StringWidth(t, font_size) : t \in sample_texts}) + pad
        taken == TakeFromDonors(col_widths, donors,
                                need - At(col_widths, target_idx), min_keep)
    IN  IF At(col_widths, target_idx) >= need THEN col_widths
        ELSE [taken EXCEPT ![target_idx + 1] = Max(@, need)]

\* Donors that begin with the NAPPI column, kept for comparison.
donors_with_nappi == <<5, 2, 3, 1, 4>>

donors_portrait == <<2, 3, 1, 4>>

\* ensure_min_col_width(col_w, NAPPI_COL, ["0000000000"], donors, 14.0,
\* table_font), lines 1105, 1137, 1142 and 1218.
ProtectNappi(widths, font_size) ==
    ensure_min_col_width(widths, NAPPI_COL, NappiSamples, donors_portrait,
                         14 * UnitsPerMm, font_size, 3 * UnitsPerMm)

\* ensure_min_col_width(col_w, UNIT_PRICE_COL, ["R0000000.00", "0000000.00"],
\* donors, 14.0, table_font), lines 1106, 1138, 1143 and 1219.
ProtectUnitPrice(widths, font_size) ==
    ensure_min_col_width(widths, UNIT_PRICE_COL, UnitPriceSamples, donors_portrait,
                         14 * UnitsPerMm, font_size, 3 * UnitsPerMm)

\* The two protection calls made together at lines 1105-1106, 1137-1138,
\* 1142-1143 and 1218-1219.
ProtectColumns(widths, font_size) ==
    ProtectUnitPrice(ProtectNappi(widths, font_size), font_size)

(***************************************************************************)
(* Page geometry (A4, millimetres) and the position of the table.          *)
(***************************************************************************)
\* pdf.w in millimetres.
PageWidth(isPortrait) == IF isPortrait THEN 210 ELSE 297

\* pdf.h in hundredths of a millimetre.
PageHeight(isPortrait) == IF isPortrait THEN 29700 ELSE 21000

\* pdf.b_margin: InvoicePDF.header calls set_auto_page_break(margin=8 or 12).
BottomMargin(isCompact) == IF isCompact THEN 800 ELSE 1200

\* pdf.set_margins(6, 6, 6) in compact mode, (10, 10, 10) otherwise.
InitialMargin(isCompact) == IF isCompact THEN 6 ELSE 10

\* pdf.get_y() when the table starts: the page header, the spacer, the two
\* divider gaps, the name line and the invoice line, then n more lines of
\* the patient block (ID/phone/e-mail, the wrapped address, medical aid).
TableStartY(isCompact, n) ==
    IF isCompact
    THEN 3800 + 420 + 420 + 2 * 380 + 50 + 300 + 100 + 2 * 500 + n * 500 + 80 + 100
    ELSE 4800 + 500 + 500 + 2 * 460 + 100 + 400 + 120 + 2 * 560 + n * 560 + 100 + 120

\* Numbers of further patient-block lines a call may meet.
PatientBlockLines == {0, 19, 31, 33, 35, 39, 40}

\* The patient block itself stays above the page-break trigger.
NoBreakBeforeTable(isPortrait, isCompact, n) ==
    TableStartY(isCompact, n) <= PageHeight(isPortrait) - BottomMargin(isCompact)

\* free_height(), lines 1120-1121.
free_height(isPortrait, isCompact, y) ==
    (PageHeight(isPortrait) - BottomMargin(isCompact)) - y

(***************************************************************************)
(* generate_pdf: rows, sizes, the height estimate and the shrink loop.     *)
(***************************************************************************)
\* Lines 990-1003: the row of texts read from one line's widgets.
RowOf(line) ==
    <<line.Date, line.Service, line.ICD10, line.ICD10Sec, line.Tariff,
      line.NAPPI, line.Qty, line.Price, line.Total>>

BuildRows(ls) == [i \in 1..Len(ls) |-> RowOf(ls[i])]

\* table_font, header_h, row_h of the portrait branch (lines 1093-1095) and
\* table_font, header cell height, base_row_h of the landscape branch.
BaseTableFont(isPortrait, isCompact) ==
    IF isPortrait THEN (IF isCompact THEN 78 ELSE 82)
    ELSE (IF isCompact THEN 80 ELSE 86)

BaseRowHeight(isPortrait, isCompact) ==
    IF isPortrait THEN (IF isCompact THEN 400 ELSE 440)
    ELSE (IF isCompact THEN 480 ELSE 540)

HeaderHeight(isPortrait, isCompact) ==
    IF isPortrait THEN (IF isCompact THEN 520 ELSE 560)
    ELSE (IF isCompact THEN 600 ELSE 700)

\* min_font_portrait = max(5.0, min(10.0, spinner value)), line 1100.
ClampMinFont(v) == Max(50, Min(100, v))

min_row_h == 320

\* The height every row is given, by table_total_height (lines 1111-1117)
\* and by draw_row (lines 1161-1168, 1233-1240).
RowHeight(r, widths, base_h, fsize) ==
    SetMax({ IF i \in WRAP_COLS
             THEN wrapped_height(At(r, i), At(widths, i), base_h, fsize) + 60
             ELSE base_h : i \in 0..(Len(r) - 1) })

\* table_total_height(fsize, base_h, widths), lines 1108-1118.
table_total_height(rs, fsize, base_h, widths, header_h) ==
    header_h + SumSeq([i \in 1..Len(rs) |-> RowHeight(rs[i], widths, base_h, fsize)])
             + header_h

\* Column widths on entry to the loop (lines 1083-1085, 1105-1106) and of
\* the landscape branch (lines 1207-1209, 1218-1219).
InitialColumnsOf ==
    [isPortrait \in BOOLEAN, isCompact \in BOOLEAN |->
        ProtectColumns(
            SplitByWeight(PageWidth(isPortrait) - 2 * InitialMargin(isCompact),
                          IF isPortrait THEN portrait_weights ELSE landscape_weights),
            BaseTableFont(isPortrait, isCompact))]

InitialColumns(isPortrait, isCompact) == InitialColumnsOf[isPortrait, isCompact]

\* The locals the shrink loop works on.
Locals(f, h, l, r, w) ==
    [table_font |-> f, row_h |-> h, l_margin |-> l, r_margin |-> r, col_w |-> w]

\* The loop condition of line 1123.
Overflows(L, rs, isCompact, y) ==
    table_total_height(rs, L.table_font, L.row_h, L.col_w, HeaderHeight(TRUE, isCompact))
        > free_height(TRUE, isCompact, y)

\* A row-height step of 0.04 instead of 0.08, kept for comparison.
ShrinkRowHeightSlow(h) == IF h > min_row_h THEN h - 4 ELSE h

\* Margins shrunk down to 5 instead of 6, kept for comparison.
ShrinkMarginsTo5(l, r) ==
    IF l > 5 \/ r > 5 THEN <<Max(l - 1, 5), Max(r - 1, 5)>> ELSE <<l, r>>

\* Lines 1124-1130: the font and the row height after the two tests.
\* A font step that returns to the minimum once the font has passed below
\* it, kept for comparison.
ShrinkFontOrRestore(f, min_font) == IF f > min_font THEN f - 2 ELSE min_font

ShrinkFont(f, min_font) == IF f > min_font THEN f - 2 ELSE f

ShrinkRowHeight(h) == IF h > min_row_h THEN h - 8 ELSE h

\* Lines 1133-1134: the margins after set_margins(max(l - 1, 6), t, max(r - 1, 6)),
\* unchanged when neither is above 6.
ShrinkMargins(l, r) ==
    IF l > 6 \/ r > 6 THEN <<Max(l - 1, 6), Max(r - 1, 6)>> ELSE <<l, r>>

\* A break taken as soon as font and row height are at their floors, the
\* margins not looked at, kept for comparison.
BreaksBeforeMargins(L, min_font) ==
    /\ L.table_font <= min_font
    /\ L.row_h <= min_row_h

\* Line 1131-1141: the pass leaves the loop by break.
Breaks(L, min_font) ==
    /\ ShrinkFont(L.table_font, min_font) = L.table_font
    /\ ShrinkRowHeight(L.row_h) = L.row_h
    /\ ShrinkMargins(L.l_margin, L.r_margin) = <<L.l_margin, L.r_margin>>

\* A pass that makes a single adjustment (font, else row height, else
\* margins), kept for comparison with the loop body of the code.
LoopBodyExclusive(L, min_font) ==
    LET f == ShrinkFont(L.table_font, min_font)
        h == ShrinkRowHeight(L.row_h)
        m == ShrinkMargins(L.l_margin, L.r_margin)
    IN  IF f # L.table_font
        THEN Locals(f, L.row_h, L.l_margin, L.r_margin, ProtectColumns(L.col_w, f))
        ELSE IF h # L.row_h
        THEN Locals(f, h, L.l_margin, L.r_margin, ProtectColumns(L.col_w, f))
        ELSE IF Breaks(L, min_font) THEN L
        ELSE Locals(f, h, m[1], m[2],
                    ProtectColumns(SplitByWeight(PageWidth(TRUE) - m[1] - m[2],
                                                 portrait_weights), f))

\* A pass that leaves the widths as split by weight after a margin shrink,
\* the protection calls not repeated; kept for comparison.
LoopBodyUnprotected(L, min_font) ==
    LET f      == ShrinkFont(L.table_font, min_font)
        h      == ShrinkRowHeight(L.row_h)
        shrunk == f # L.table_font \/ h # L.row_h
        m      == ShrinkMargins(L.l_margin, L.r_margin)
    IN  IF shrunk
        THEN Locals(f, h, L.l_margin, L.r_margin, L.col_w)
        ELSE IF Breaks(L, min_font) THEN L
        ELSE Locals(f, h, m[1], m[2],
                    SplitByWeight(PageWidth(TRUE) - m[1] - m[2], portrait_weights))

\* One pass through the loop body, lines 1124-1143.
LoopBody(L, min_font) ==
    LET f      == ShrinkFont(L.table_font, min_font)
        h      == ShrinkRowHeight(L.row_h)
        shrunk == f # L.table_font \/ h # L.row_h
        m      == ShrinkMargins(L.l_margin, L.r_margin)
        split  == ProtectColumns(SplitByWeight(PageWidth(TRUE) - m[1] - m[2], portrait_weights), f)
    IN  IF shrunk
        THEN Locals(f, h, L.l_margin, L.r_margin, ProtectColumns(L.col_w, f))
        ELSE IF Breaks(L, min_font) THEN L
        ELSE Locals(f, h, m[1], m[2], ProtectColumns(split, f))

\* The whole loop, lines 1123-1143: the locals and the number of passes
\* when it is left.
RECURSIVE RunLoop(_, _, _, _, _, _)
RunLoop(L, n, rs, isCompact, min_font, y) ==
    IF ~Overflows(L, rs, isCompact, y) THEN <<L, n>>
    ELSE IF Breaks(L, min_font) THEN <<L, n + 1>>
    ELSE RunLoop(LoopBody(L, min_font), n + 1, rs, isCompact, min_font, y)

(***************************************************************************)
(* generate_pdf: drawing the table and the totals line.                    *)
(***************************************************************************)
\* pdf.ln(0.6) before the portrait totals line; pdf.ln(1 or 0.5) in landscape.
TotalsGap(isPortrait, isCompact) ==
    IF isPortrait THEN 60 ELSE (IF isCompact THEN 50 ELSE 100)

\* FPDF's page_break_trigger: a cell of height h at y starts a new page
\* first when y + h is beyond it.
PageBreakTrigger(isPortrait, isCompact) ==
    PageHeight(isPortrait) - BottomMargin(isCompact)

\* pdf.get_y() on a page FPDF has just added: below what InvoicePDF.header
\* prints.
TopOfPage(isCompact) ==
    IF isCompact THEN 3800 + 420 + 420 + 2 * 380 + 50
    ELSE 4800 + 500 + 500 + 2 * 460 + 100

\* Something drawn: the header row, a row of the table or the totals line,
\* at y with height h; newpage tells that FPDF started a new page while
\* drawing it.
Entry(kind, idx, y, h, newpage) ==
    [kind |-> kind, idx |-> idx, y |-> y, h |-> h, newpage |-> newpage]

\* A full-width line of single cells (header row, totals line) at y: it is
\* moved to the top of a new page if it would pass the trigger.
LineEntry(kind, y, h, isCompact, trigger) ==
    IF y + h > trigger
    THEN Entry(kind, 0, TopOfPage(isCompact), h, TRUE)
    ELSE Entry(kind, 0, y, h, FALSE)

\* A row loop that draws one blank row whatever the rows, kept for comparison.
DrawRowsPadded(rs, i, y, widths, base_h, fsize, trigger) ==
    << Entry("row", i, y, base_h, FALSE) >>

\* A row loop that stops after the first row, kept for comparison.
DrawRowsFirstOnly(rs, i, y, widths, base_h, fsize, trigger) ==
    IF rs = <<>> THEN <<>>
    ELSE <<Entry("row", 1, y, RowHeight(rs[1], widths, base_h, fsize), FALSE)>>

\* A row loop that restarts every row at the y of the first, kept for
\* comparison.
DrawRowsStacked(rs, i, y, widths, base_h, fsize, trigger) ==
    [k \in 1..Len(rs) |->
        Entry("row", k, y, RowHeight(rs[k], widths, base_h, fsize), FALSE)]

\* The row loops of lines 1189-1190 and 1260-1261: draw_row frames row i at
\* y0 = pdf.get_y() with its computed height rh and ends with
\* set_xy(x, y0 + rh); its cells make FPDF start new pages when y0 + rh is
\* beyond the trigger.
RECURSIVE DrawRows(_, _, _, _, _, _, _)
DrawRows(rs, i, y, widths, base_h, fsize, trigger) ==
    IF i > Len(rs) THEN <<>>
    ELSE LET rh == RowHeight(rs[i], widths, base_h, fsize)
         IN  <<Entry("row", i, y, rh, y + rh > trigger)>>
                \o DrawRows(rs, i + 1, y + rh, widths, base_h, fsize, trigger)

\* The y at which the drawing stands after the entries of s (y0 if none).
EndY(s, y0) == IF s = <<>> THEN y0 ELSE s[Len(s)].y + s[Len(s)].h

\* The totals line after the header and the rows, lines 1198-1201, 1274-1277.
TotalsEntry(head, body, isPortrait, isCompact) ==
    LineEntry("totals",
              EndY(body, EndY(<<head>>, 0)) + TotalsGap(isPortrait, isCompact),
              HeaderHeight(isPortrait, isCompact), isCompact,
              PageBreakTrigger(isPortrait, isCompact))

RowsBelow(head, rs, isPortrait, isCompact, L) ==
    DrawRows(rs, 1, EndY(<<head>>, 0), L.col_w, L.row_h, L.table_font,
             PageBreakTrigger(isPortrait, isCompact))

DrawBelow(head, body, isPortrait, isCompact) ==
    <<head>> \o body \o <<TotalsEntry(head, body, isPortrait, isCompact)>>

DrawFrom(head, rs, isPortrait, isCompact, L) ==
    DrawBelow(head, RowsBelow(head, rs, isPortrait, isCompact, L), isPortrait, isCompact)

\* Lines 1145-1202 and 1221-1277: header, rows, totals line, in drawing order.
DrawTable(rs, isPortrait, isCompact, y, L) ==
    DrawFrom(LineEntry("header", y, HeaderHeight(isPortrait, isCompact), isCompact,
                       PageBreakTrigger(isPortrait, isCompact)),
             rs, isPortrait, isCompact, L)

\* A split that divides whatever the rate, kept for comparison with the
\* branches below.
AlwaysDivideTax(gross, rate) == TaxSplit(gross, rate, FALSE)

\* Portrait totals, lines 1196-1197: "... if self.vat_rate else ...".
PortraitTax(gross, rate) == TaxSplit(gross, rate, ~(rate.coef # 0))

\* Landscape totals, lines 1267-1272: if self.vat_rate == 0.
LandscapeTax(gross, rate) == TaxSplit(gross, rate, IsZero(rate))

NoTotals ==
    [gross |-> ZeroCents, ex |-> ZeroCents, vat |-> ZeroCents,
     divided |-> FALSE, raised |-> FALSE]

\* Lines 1188-1201 and 1259-1276: the amounts of the totals line.
PrintedTotals(gross, t) ==
    [gross |-> fmt_money(gross), ex |-> fmt_money(t.ex), vat |-> fmt_money(t.vat),
     divided |-> t.divided, raised |-> t.raised]

PdfTotalsFrom(gross, isPortrait, rate) ==
    PrintedTotals(gross, IF isPortrait THEN PortraitTax(gross, rate)
                         ELSE LandscapeTax(gross, rate))

PdfTotals(rs, isPortrait, rate) ==
    PdfTotalsFrom(GrossOf([i \in 1..Len(rs) |-> At(rs[i], 8)]), isPortrait, rate)

(***************************************************************************)
(***************************************************************************)
(* check_for_updates_windows, lines 41-122.                                *)
(***************************************************************************)
\* __version__.
RunningVersion == <<"1", ".", "0", ".", "0">>

\* s.split(sep): the pieces between the separators.
RECURSIVE SplitOn(_, _, _)
SplitOn(s, sep, cur) ==
    IF s = <<>> THEN <<cur>>
    ELSE IF Head(s) = sep THEN <<cur>> \o SplitOn(Tail(s), sep, <<>>)
    ELSE SplitOn(Tail(s), sep, Append(cur, Head(s)))

\* A leading sign and digits: the texts int() accepts, once stripped.
IsIntText(t) ==
    LET body == IF t # <<>> /\ Head(t) \in {"-", "+"} THEN Tail(t) ELSE t
    IN  body # <<>> /\ \A i \in 1..Len(body) : IsDigit(body[i])

IntValue(t) ==
    IF Head(t) = "-" THEN 0 - DigitsToNat(Tail(t))
    ELSE IF Head(t) = "+" THEN DigitsToNat(Tail(t))
    ELSE DigitsToNat(t)

\* _parse_version, lines 45-46: the tuple of ints, or ok false for the
\* ValueError of a piece that is no int.
parse_version(v) ==
    LET parts == SplitOn(Strip(v), ".", <<>>)
        ok == \A i \in 1..Len(parts) : IsIntText(Strip(parts[i]))
    IN  [ok |-> ok,
         t |-> IF ok THEN [i \in 1..Len(parts) |-> IntValue(Strip(parts[i]))]
               ELSE <<>>]

\* a <= b of two tuples of ints.
RECURSIVE TupleLeq(_, _)
TupleLeq(a, b) ==
    IF a = <<>> THEN TRUE
    ELSE IF b = <<>> THEN FALSE
    ELSE IF Head(a) # Head(b) THEN Head(a) < Head(b)
    ELSE TupleLeq(Tail(a), Tail(b))

\* Lines 78-84: the comparison that ends the call with "Up to date"; a
\* version that cannot be parsed does not end it.
UpToDate(latest) ==
    LET l == parse_version(latest)
        r == parse_version(RunningVersion)
    IN  l.ok /\ r.ok /\ TupleLeq(l.t, r.t)

\* str.lower() over the characters of a hexadecimal digest.
LowerChar(c) ==
    CASE c = "A" -> "a" [] c = "B" -> "b" [] c = "C" -> "c"
      [] c = "D" -> "d" [] c = "E" -> "e" [] c = "F" -> "f"
      [] OTHER -> c

Lower(s) == [i \in 1..Len(s) |-> LowerChar(s[i])]

\* Lines 69-72: the fields read from the manifest, an absent one being ''.
ReadManifest(m) ==
    [latest |-> Strip(m.version),
     win_url |-> Strip(m.windows_installer_url),
     win_sha |-> Lower(Strip(m.windows_sha256))]

NoManifest == [latest |-> Empty, win_url |-> Empty, win_sha |-> Empty]

\* No file at dl_path.
NoFile == <<"-">>

\* The check passed whenever a file was downloaded, whatever its digest.
HashOfAnyFile(actual, win_sha) == actual # NoFile

\* Line 100: the digest of the downloaded file against the manifest's.
HashAccepted(actual, win_sha) == actual = win_sha

\* The manifests served: versions older, equal, newer, shorter, longer and
\* unparsable, with and without an installer URL and a SHA-256.
ManifestVersions ==
    { Empty,
      <<"0", ".", "9", ".", "9">>,
      <<"1", ".", "0">>,
      RunningVersion,
      RunningVersion \o <<".", "0">>,
      <<"1", ".", "0", ".", "1">>,
      <<" ", "2", ".", "0">>,
      <<"v", "2">> }

InstallerUrls == { Empty, <<"s", "e", "t", "u", "p", ".", "e", "x", "e">> }

ManifestHashes == { Empty, <<"A", "B">>, <<"a", "b">> }

Manifests ==
    { [version |-> v, windows_installer_url |-> u, windows_sha256 |-> h] :
      v \in ManifestVersions, u \in InstallerUrls, h \in ManifestHashes }

\* Digests of the files a download can leave at dl_path.
FileHashes == { <<"a", "b">>, <<"c", "d">> }

\* Outside check_for_updates_windows, before any call of it.
UpdateIdle ==
    /\ upd_pc = "idle"
    /\ manifest = NoManifest
    /\ confirmed = FALSE
    /\ dl_hash = NoFile
    /\ installer_started = FALSE
    /\ app_closed = FALSE
    /\ upd_messages = <<>>

(* The invoice counter, lines 257-288.                                     *)
(***************************************************************************)
\* load_invoice_counter() when invoice_counter.json is missing or unreadable.
DefaultLastInvoice == 1000

\* Invoices numbered in one run of the model.
MaxInvoices == 1

peek_next_invoice_number(last) == last + 1

InvoicePrefix == <<"I", "N", "V", "-">>

format_invoice_no(n) == InvoicePrefix \o NatToText(n)

\* s.replace(sub, ""): every occurrence of sub removed, left to right.
RECURSIVE RemoveSub(_, _)
RemoveSub(s, sub) ==
    IF Len(s) < Len(sub) THEN s
    ELSE IF SubSeq(s, 1, Len(sub)) = sub
         THEN RemoveSub(SubSeq(s, Len(sub) + 1, Len(s)), sub)
         ELSE <<Head(s)>> \o RemoveSub(Tail(s), sub)

\* int(t) of a stripped text: its value, or ok false for the ValueError.
IntOfText(t) ==
    [ok |-> IsIntText(t), n |-> IF IsIntText(t) THEN IntValue(t) ELSE 0]

InvoiceNumberOf(inv_string) == IntOfText(Strip(RemoveSub(inv_string, InvoicePrefix)))

\* The counter stored whatever the number in the text is.
persist_invoice_always(inv_string, last) ==
    LET n == InvoiceNumberOf(inv_string)
    IN  IF n.ok THEN n.n ELSE last

\* persist_invoice_if_new, lines 280-288: the counter the file holds after
\* the call, last being what it held before.
persist_invoice_if_new(inv_string, last) ==
    LET n == InvoiceNumberOf(inv_string)
    IN  IF n.ok /\ n.n > last THEN n.n ELSE last

\* Lines 1282-1292: the save dialog cancelled, the file written, or
\* pdf.output raising; the message boxes shown in each case.
SaveOutcomes == {"cancelled", "saved", "failed"}

\* Lines 1285-1289: after pdf.output the counter is persisted and the entry
\* shows the next number; nothing of this happens without a written file.
SaveInvoice(outcome) ==
    IF outcome = "saved"
    THEN /\ persist_invoice_if_new(Strip(invoice_no), invoice_counter)
               <= DefaultLastInvoice + MaxInvoices
         /\ invoice_counter' = persist_invoice_if_new(Strip(invoice_no), invoice_counter)
         /\ invoice_no' = format_invoice_no(peek_next_invoice_number(invoice_counter'))
    ELSE UNCHANGED <<invoice_no, invoice_counter, updVars>>

\* The outcomes that write no file.
UnsavedOutcomes == {"cancelled", "failed"}

SaveMessages(outcome) ==
    CASE outcome = "saved" -> << "Saved" >>
      [] outcome = "failed" -> << "Save Error" >>
      [] OTHER -> << >>

(***************************************************************************)
(* The form's handlers.  Each runs to completion; the locals of an earlier *)
(* generate_pdf call are gone when the next handler starts.                *)
(***************************************************************************)
PdfIdle ==
    /\ pc' = "idle"
    /\ portrait' = TRUE
    /\ compact' = FALSE
    /\ rows' = <<>>
    /\ min_font_portrait' = 0
    /\ table_font' = 0
    /\ row_h' = 0
    /\ l_margin' = 0
    /\ r_margin' = 0
    /\ col_w' = <<>>
    /\ cur_y' = 0
    /\ iterations' = 0
    /\ drawn' = <<>>
    /\ pdf_totals' = NoTotals
    /\ messages' = <<>>

\* No handler is running: generate_pdf has returned, no dialog of the update
\* check is open and the window has not been destroyed.
Quiescent == pc \in {"idle", "done"} /\ upd_pc = "idle" /\ ~app_closed

\* "Add Line": add_line_item() then, ui_ready being true, update_total and
\* recalc_totals.
AddLine ==
    /\ Quiescent
    /\ Len(lines) < MaxLines
    /\ lines' = Append(lines, add_line_item(NewLine(InvoiceDate), FALSE, ui_ready))
    /\ labels' = recalc_totals(lines', vat_rate, ui_ready, labels)
    /\ UNCHANGED <<vat_rate, vat_var, ui_ready, min_portrait_font_var,
                   invoice_no, invoice_counter, updVars>>
    /\ PdfIdle

\* A key released in the Qty entry of row i: update_total(fields).
EditQty(i, text) ==
    /\ Quiescent
    /\ i \in 1..Len(lines)
    /\ lines' = [lines EXCEPT ![i] = update_total([@ EXCEPT !.Qty = text])]
    /\ labels' = recalc_totals(lines', vat_rate, ui_ready, labels)
    /\ UNCHANGED <<vat_rate, vat_var, ui_ready, min_portrait_font_var,
                   invoice_no, invoice_counter, updVars>>
    /\ PdfIdle

\* A key released in the Price entry of row i: update_total(fields).
EditPrice(i, text) ==
    /\ Quiescent
    /\ i \in 1..Len(lines)
    /\ lines' = [lines EXCEPT ![i] = update_total([@ EXCEPT !.Price = text])]
    /\ labels' = recalc_totals(lines', vat_rate, ui_ready, labels)
    /\ UNCHANGED <<vat_rate, vat_var, ui_ready, min_portrait_font_var,
                   invoice_no, invoice_counter, updVars>>
    /\ PdfIdle

\* A service chosen in the Service combobox of row i: populate_service_data.
SelectService(i, r) ==
    /\ Quiescent
    /\ i \in 1..Len(lines)
    /\ lines' = [lines EXCEPT ![i] = populate_service_data(@, r)]
    /\ labels' = recalc_totals(lines', vat_rate, ui_ready, labels)
    /\ UNCHANGED <<vat_rate, vat_var, ui_ready, min_portrait_font_var,
                   invoice_no, invoice_counter, updVars>>
    /\ PdfIdle

\* The remove button of row i: remove_line_item, lines 789-803.
RemoveLine(i) ==
    /\ Quiescent
    /\ i \in 1..Len(lines)
    /\ lines' = RemoveAt(lines, i)
    /\ labels' = recalc_totals(lines', vat_rate, ui_ready, labels)
    /\ UNCHANGED <<vat_rate, vat_var, ui_ready, min_portrait_font_var,
                   invoice_no, invoice_counter, updVars>>
    /\ PdfIdle

\* Focus leaving the VAT entry, or Return in it, with text typed:
\* _on_vat_change, lines 869-878.
OnVatChange(text) ==
    LET raw == RemoveChar(Strip(text), "%")
        pct == DecimalOfText(raw)
    IN  /\ Quiescent
        /\ IF pct.ok
           THEN /\ vat_rate' = QuantizeHalfEven(Dec(pct.neg, pct.coef, pct.scale + 2), 4)
                /\ vat_var' = text
           ELSE /\ vat_rate' = DEFAULT_VAT_RATE
                /\ vat_var' = PercentText(DEFAULT_VAT_RATE)
        /\ labels' = recalc_totals(lines, vat_rate', ui_ready, labels)
        /\ UNCHANGED <<lines, ui_ready, min_portrait_font_var,
                       invoice_no, invoice_counter, updVars>>
        /\ PdfIdle

\* "Load Draft" with a readable file: load_draft, lines 1374-1418.  The rows
\* are rebuilt by add_line_item(preset) while ui_ready is false.
LoadDraft(d) ==
    /\ Quiescent
    /\ Len(d.lines) <= MaxLines
    /\ vat_rate' = IF d.has_vat THEN d.vat_rate ELSE vat_rate
    /\ vat_var' = IF d.has_vat THEN PercentText(d.vat_rate) ELSE vat_var
    /\ lines' = [i \in 1..Len(d.lines) |-> add_line_item(d.lines[i], TRUE, FALSE)]
    /\ ui_ready' = TRUE
    /\ labels' = recalc_totals(lines', vat_rate', TRUE, labels)
    /\ min_portrait_font_var' = IF d.has_min_font THEN d.min_portrait_font
                                ELSE min_portrait_font_var
    /\ invoice_no' = IF d.invoice_no = Empty
                     THEN format_invoice_no(peek_next_invoice_number(invoice_counter))
                     ELSE d.invoice_no
    /\ UNCHANGED <<invoice_counter, updVars>>
    /\ PdfIdle

\* "New Invoice": reset_form, lines 1420-1442.
ResetForm ==
    /\ Quiescent
    /\ vat_rate' = DEFAULT_VAT_RATE
    /\ vat_var' = PercentText(DEFAULT_VAT_RATE)
    /\ min_portrait_font_var' = 62
    /\ lines' = << add_line_item(NewLine(InvoiceDate), FALSE, FALSE) >>
    /\ ui_ready' = TRUE
    /\ labels' = recalc_totals(lines', vat_rate', TRUE, labels)
    /\ invoice_no' = format_invoice_no(peek_next_invoice_number(invoice_counter))
    /\ UNCHANGED <<invoice_counter, updVars>>
    /\ PdfIdle

\* "Generate PDF" run from the name check to the save message: the table is
\* laid out, fitted, drawn and totalled, the file saved or not.  n is the
\* number of further lines of the patient block, outcome what the save
\* dialog and pdf.output did.
GeneratePdf(isPortrait, isCompact, n, outcome) ==
    LET rs == BuildRows(lines)
        y  == TableStartY(isCompact, n)
        mf == ClampMinFont(min_portrait_font_var)
        L0 == Locals(BaseTableFont(isPortrait, isCompact),
                     BaseRowHeight(isPortrait, isCompact),
                     InitialMargin(isCompact), InitialMargin(isCompact),
                     InitialColumns(isPortrait, isCompact))
    IN  /\ Quiescent
        /\ NoBreakBeforeTable(isPortrait, isCompact, n)
        /\ \E fit \in { IF isPortrait THEN RunLoop(L0, 0, rs, isCompact, mf, y)
                         ELSE <<L0, 0>> } :
              /\ table_font' = fit[1].table_font
              /\ row_h' = fit[1].row_h
              /\ l_margin' = fit[1].l_margin
              /\ r_margin' = fit[1].r_margin
              /\ col_w' = fit[1].col_w
              /\ iterations' = fit[2]
              /\ drawn' = DrawTable(rs, isPortrait, isCompact, y, fit[1])
        /\ pc' = "done"
        /\ portrait' = isPortrait
        /\ compact' = isCompact
        /\ rows' = rs
        /\ min_font_portrait' = mf
        /\ cur_y' = y
        /\ pdf_totals' = PdfTotals(rs, isPortrait, vat_rate)
        /\ messages' = SaveMessages(outcome)
        /\ SaveInvoice(outcome)
        /\ UNCHANGED <<lines, vat_rate, vat_var, ui_ready, labels,
                       min_portrait_font_var, updVars>>

\* The form after InvoiceApp.__init__: ui_ready, one line added, totals shown.
LabelsInit ==
    [ex |-> ZeroCents, vat |-> ZeroCents, total |-> ZeroCents,
     pct |-> PercentInt(DEFAULT_VAT_RATE), divided |-> FALSE]

Init ==
    /\ lines = << add_line_item(NewLine(InvoiceDate), FALSE, TRUE) >>
    /\ vat_rate = DEFAULT_VAT_RATE
    /\ vat_var = PercentText(DEFAULT_VAT_RATE)
    /\ ui_ready = TRUE
    /\ labels = recalc_totals(lines, DEFAULT_VAT_RATE, TRUE, LabelsInit)
    /\ min_portrait_font_var = 62
    /\ invoice_counter = DefaultLastInvoice
    /\ invoice_no = format_invoice_no(peek_next_invoice_number(invoice_counter))
    /\ UpdateIdle
    /\ pc = "idle"
    /\ portrait = TRUE
    /\ compact = FALSE
    /\ rows = <<>>
    /\ min_font_portrait = 0
    /\ table_font = 0
    /\ row_h = 0
    /\ l_margin = 0
    /\ r_margin = 0
    /\ col_w = <<>>
    /\ cur_y = 0
    /\ iterations = 0
    /\ drawn = <<>>
    /\ pdf_totals = NoTotals
    /\ messages = <<>>

Next ==
    \/ AddLine
    \/ \E i \in 1..MaxLines, t \in QtyTexts : EditQty(i, t)
    \/ \E i \in 1..MaxLines, t \in PriceTexts : EditPrice(i, t)
    \/ \E i \in 1..MaxLines, r \in ServiceSheet : SelectService(i, r)
    \/ \E i \in 1..MaxLines : RemoveLine(i)
    \/ \E t \in VatTexts : OnVatChange(t)
    \/ \E d \in DraftFiles : LoadDraft(d)
    \/ ResetForm
    \/ \E p \in BOOLEAN, o \in UnsavedOutcomes : GeneratePdf(p, FALSE, 0, o)

Spec == Init /\ [][Next]_vars

(***************************************************************************)
(* generate_pdf step by step: the portrait shrink loop is followed one     *)
(* pass at a time, over forms whose ICD-10 cells may hold a long code and  *)
(* whose minimum-font spinner may have been moved.                         *)
(***************************************************************************)
MaxCodeLen == 30

IcdTexts == { Empty, Rep("a", MaxCodeLen) }

\* Values of the "Min Portrait Font Size" spinner (5.0 to 10.0 by 0.1).
MinFontChoices == { 50, 62, 63, 82, 100 }

\* Text typed into the ICD-10 entry of row i; no handler is bound to it.
TypeICD10(i, text) ==
    /\ Quiescent
    /\ i \in 1..Len(lines)
    /\ lines[i].ICD10 # text
    /\ lines' = [lines EXCEPT ![i].ICD10 = text]
    /\ UNCHANGED <<vat_rate, vat_var, ui_ready, labels, min_portrait_font_var,
                   invoice_no, invoice_counter, updVars>>
    /\ PdfIdle

\* The spinner of lines 577-586 moved to v.
SetMinFont(v) ==
    /\ Quiescent
    /\ min_portrait_font_var # v
    /\ min_portrait_font_var' = v
    /\ UNCHANGED <<lines, vat_rate, vat_var, ui_ready, labels,
                   invoice_no, invoice_counter, updVars>>
    /\ PdfIdle

\* generate_pdf from its start to the first test of the loop condition
\* (portrait) or to the drawing of the header (landscape).
BeginPdf(isPortrait, isCompact, n) ==
    /\ Quiescent
    /\ NoBreakBeforeTable(isPortrait, isCompact, n)
    /\ pc' = IF isPortrait THEN "loop" ELSE "draw"
    /\ portrait' = isPortrait
    /\ compact' = isCompact
    /\ rows' = BuildRows(lines)
    /\ min_font_portrait' = ClampMinFont(min_portrait_font_var)
    /\ table_font' = BaseTableFont(isPortrait, isCompact)
    /\ row_h' = BaseRowHeight(isPortrait, isCompact)
    /\ l_margin' = InitialMargin(isCompact)
    /\ r_margin' = InitialMargin(isCompact)
    /\ col_w' = InitialColumns(isPortrait, isCompact)
    /\ cur_y' = TableStartY(isCompact, n)
    /\ iterations' = 0
    /\ drawn' = <<>>
    /\ pdf_totals' = NoTotals
    /\ messages' = <<>>
    /\ UNCHANGED <<formVars, invoice_counter, updVars>>

CurrentLocals == Locals(table_font, row_h, l_margin, r_margin, col_w)

SetLocals(L) ==
    /\ table_font' = L.table_font
    /\ row_h' = L.row_h
    /\ l_margin' = L.l_margin
    /\ r_margin' = L.r_margin
    /\ col_w' = L.col_w

\* One pass of the loop body that returns to the loop condition.
ShrinkPass ==
    /\ pc = "loop"
    /\ Overflows(CurrentLocals, rows, compact, cur_y)
    /\ ~Breaks(CurrentLocals, min_font_portrait)
    /\ SetLocals(LoopBody(CurrentLocals, min_font_portrait))
    /\ iterations' = iterations + 1
    /\ UNCHANGED <<formVars, invoice_counter, updVars, pc, portrait, compact, rows, min_font_portrait,
                   cur_y, drawn, pdf_totals, messages>>

\* The pass that finds nothing left to shrink and leaves by break.
ShrinkBreak ==
    /\ pc = "loop"
    /\ Overflows(CurrentLocals, rows, compact, cur_y)
    /\ Breaks(CurrentLocals, min_font_portrait)
    /\ pc' = "draw"
    /\ iterations' = iterations + 1
    /\ UNCHANGED <<formVars, invoice_counter, updVars, portrait, compact, rows, min_font_portrait,
                   table_font, row_h, l_margin, r_margin, col_w,
                   cur_y, drawn, pdf_totals, messages>>

\* The loop condition found false: the estimate fits.
LoopExit ==
    /\ pc = "loop"
    /\ ~Overflows(CurrentLocals, rows, compact, cur_y)
    /\ pc' = "draw"
    /\ UNCHANGED <<formVars, invoice_counter, updVars, portrait, compact, rows, min_font_portrait,
                   table_font, row_h, l_margin, r_margin, col_w,
                   cur_y, iterations, drawn, pdf_totals, messages>>

\* Header, rows and totals line drawn with the sizes the loop left, then the
\* save dialog and its message.
DrawAndTotal ==
    /\ pc = "draw"
    /\ pc' = "done"
    /\ drawn' = DrawTable(rows, portrait, compact, cur_y, CurrentLocals)
    /\ pdf_totals' = PdfTotals(rows, portrait, vat_rate)
    /\ \E outcome \in SaveOutcomes : /\ messages' = SaveMessages(outcome)
                                     /\ SaveInvoice(outcome)
    /\ UNCHANGED <<lines, vat_rate, vat_var, ui_ready, labels,
                   min_portrait_font_var, updVars, portrait, compact, rows, min_font_portrait,
                   table_font, row_h, l_margin, r_margin, col_w,
                   cur_y, iterations>>

NextFit ==
    \/ AddLine
    \/ \E i \in 1..MaxLines : RemoveLine(i)
    \/ \E i \in 1..MaxLines, t \in IcdTexts : TypeICD10(i, t)
    \/ \E v \in MinFontChoices : SetMinFont(v)
    \/ \E p \in BOOLEAN, c \in BOOLEAN, n \in PatientBlockLines : BeginPdf(p, c, n)
    \/ ShrinkPass
    \/ ShrinkBreak
    \/ LoopExit
    \/ DrawAndTotal

SpecFit == Init /\ [][NextFit]_vars

(***************************************************************************)
(* The tax split over a range of gross amounts and rates: a form with one  *)
(* line of quantity 1 whose price has been typed, the VAT entry edited and *)
(* the PDF generated in either orientation.                                *)
(***************************************************************************)
MaxCents == 199

TaxVatTexts == { <<"0">>, <<"1", "5">>, <<"1", "4">>, <<"7", ".", "5">>,
                 <<"9", "9", ".", "9", "9">> }

PricedLine(cents) ==
    update_total([NewLine(InvoiceDate) EXCEPT !.Price = TextOfDecimal(Dec(FALSE, cents, 2))])

InitTax ==
    /\ \E cents \in 0..MaxCents : lines = << PricedLine(cents) >>
    /\ vat_rate = DEFAULT_VAT_RATE
    /\ vat_var = PercentText(DEFAULT_VAT_RATE)
    /\ ui_ready = TRUE
    /\ labels = recalc_totals(lines, DEFAULT_VAT_RATE, TRUE, LabelsInit)
    /\ min_portrait_font_var = 62
    /\ invoice_counter = DefaultLastInvoice
    /\ invoice_no = format_invoice_no(peek_next_invoice_number(invoice_counter))
    /\ UpdateIdle
    /\ pc = "idle"
    /\ portrait = TRUE
    /\ compact = FALSE
    /\ rows = <<>>
    /\ min_font_portrait = 0
    /\ table_font = 0
    /\ row_h = 0
    /\ l_margin = 0
    /\ r_margin = 0
    /\ col_w = <<>>
    /\ cur_y = 0
    /\ iterations = 0
    /\ drawn = <<>>
    /\ pdf_totals = NoTotals
    /\ messages = <<>>

NextTax ==
    \/ \E t \in TaxVatTexts : OnVatChange(t)
    \/ \E p \in BOOLEAN, c \in BOOLEAN, o \in SaveOutcomes : GeneratePdf(p, c, 0, o)

SpecTax == InitTax /\ [][NextTax]_vars

(***************************************************************************)
(* The allocation of the column widths on its own: the split by weight of  *)
(* the width between the margins, the two protection calls, and the        *)
(* protection repeated on its own result as the loop does.                 *)
(***************************************************************************)
MaxMargin == 60

\* Table fonts: 5.0 (the lowest minimum) to 8.6 (landscape base) in the
\* loop's steps of 0.2.
FontChoices == { 50 + 2 * k : k \in 0..18 }

\* avail_w = pdf.w - pdf.l_margin - pdf.r_margin, in millimetres.
AvailWidth == PageWidth(portrait) - l_margin - r_margin

InitCols ==
    /\ lines = << add_line_item(NewLine(InvoiceDate), FALSE, TRUE) >>
    /\ vat_rate = DEFAULT_VAT_RATE
    /\ vat_var = PercentText(DEFAULT_VAT_RATE)
    /\ ui_ready = TRUE
    /\ labels = recalc_totals(lines, DEFAULT_VAT_RATE, TRUE, LabelsInit)
    /\ min_portrait_font_var = 62
    /\ invoice_counter = DefaultLastInvoice
    /\ invoice_no = format_invoice_no(peek_next_invoice_number(invoice_counter))
    /\ UpdateIdle
    /\ pc = "split"
    /\ portrait \in BOOLEAN
    /\ compact = FALSE
    /\ rows = <<>>
    /\ min_font_portrait = 0
    /\ table_font \in FontChoices
    /\ row_h = 0
    /\ l_margin \in 6..MaxMargin
    /\ r_margin = l_margin
    /\ col_w = SplitByWeight(AvailWidth,
                             IF portrait THEN portrait_weights ELSE landscape_weights)
    /\ cur_y = 0
    /\ iterations = 0
    /\ drawn = <<>>
    /\ pdf_totals = NoTotals
    /\ messages = <<>>

\* Line 1105 (1218 in landscape).
ProtectNappiStep ==
    /\ pc = "split"
    /\ pc' = "nappi"
    /\ col_w' = ProtectNappi(col_w, table_font)
    /\ UNCHANGED <<formVars, invoice_counter, updVars, portrait, compact, rows, min_font_portrait, table_font,
                   row_h, l_margin, r_margin, cur_y, iterations, drawn, pdf_totals,
                   messages>>

\* Line 1106 (1219 in landscape).
ProtectUnitPriceStep ==
    /\ pc = "nappi"
    /\ pc' = "protected"
    /\ col_w' = ProtectUnitPrice(col_w, table_font)
    /\ UNCHANGED <<formVars, invoice_counter, updVars, portrait, compact, rows, min_font_portrait, table_font,
                   row_h, l_margin, r_margin, cur_y, iterations, drawn, pdf_totals,
                   messages>>

\* Lines 1142-1143: both calls again, on the widths already protected.
ProtectAgainStep ==
    /\ pc = "protected"
    /\ pc' = "reprotected"
    /\ col_w' = ProtectColumns(col_w, table_font)
    /\ UNCHANGED <<formVars, invoice_counter, updVars, portrait, compact, rows, min_font_portrait, table_font,
                   row_h, l_margin, r_margin, cur_y, iterations, drawn, pdf_totals,
                   messages>>

\* Lines 1131-1143 in a pass that finds font and row height at their floors
\* and a margin above 6: the margins shrunk, the widths split again over the
\* new width and protected, then protected once more at the end of the pass.
ReallocateStep ==
    /\ pc \in {"protected", "reprotected", "reallocated"}
    /\ portrait
    /\ ~Breaks(CurrentLocals, table_font)
    /\ pc' = "reallocated"
    /\ SetLocals(LoopBody(CurrentLocals, table_font))
    /\ UNCHANGED <<formVars, invoice_counter, updVars, portrait, compact, rows,
                   min_font_portrait, cur_y, iterations, drawn, pdf_totals,
                   messages>>

NextCols ==
    \/ ProtectNappiStep
    \/ ProtectUnitPriceStep
    \/ ProtectAgainStep
    \/ ReallocateStep

SpecCols == InitCols /\ [][NextCols]_vars

(***************************************************************************)
(* wrapped_height on its own: the estimate for the ICD-10 cell of one row, *)
(* taken for a text and a column width and taken again after the column    *)
(* has been made narrower, as the protection calls do to their donors.     *)
(***************************************************************************)
MaxTextLen == 6

MaxWidthTenths == 60

\* Texts of a digit, a narrow letter and the blank.
RECURSIVE TextsOfLen(_)
TextsOfLen(n) ==
    IF n = 0 THEN { <<>> }
    ELSE { Append(t, c) : t \in TextsOfLen(n - 1), c \in {"0", "i", " "} }

WrapTexts == UNION { TextsOfLen(n) : n \in 0..MaxTextLen }

\* Column widths in tenths of a millimetre, 3.0mm and up.
WrapWidths == { k * (UnitsPerMm \div 10) : k \in 30..MaxWidthTenths }

\* What a donor column gives away at a time, in tenths of a millimetre.
TakeChoices == { k * (UnitsPerMm \div 10) : k \in 1..3 }

ICD10_COL == 2

\* A row whose ICD-10 cell holds the text, the other cells empty.
WrapRow(text) == [i \in 1..9 |-> IF i = ICD10_COL + 1 THEN text ELSE Empty]

\* The estimate for the ICD-10 cell of the first row.
MeasuredCell(rs, widths, line_hh, font_size) ==
    << Entry("cell", ICD10_COL, 0,
             wrapped_height(At(rs[1], ICD10_COL), At(widths, ICD10_COL),
                            line_hh, font_size),
             FALSE) >>

InitWrap ==
    /\ lines = << add_line_item(NewLine(InvoiceDate), FALSE, TRUE) >>
    /\ vat_rate = DEFAULT_VAT_RATE
    /\ vat_var = PercentText(DEFAULT_VAT_RATE)
    /\ ui_ready = TRUE
    /\ labels = recalc_totals(lines, DEFAULT_VAT_RATE, TRUE, LabelsInit)
    /\ min_portrait_font_var = 62
    /\ invoice_counter = DefaultLastInvoice
    /\ invoice_no = format_invoice_no(peek_next_invoice_number(invoice_counter))
    /\ UpdateIdle
    /\ pc = "measure"
    /\ portrait = TRUE
    /\ compact = FALSE
    /\ \E text \in WrapTexts : rows = << WrapRow(text) >>
    /\ min_font_portrait = 62
    /\ table_font \in {62, BaseTableFont(TRUE, FALSE)}
    /\ row_h = BaseRowHeight(TRUE, FALSE)
    /\ l_margin = InitialMargin(FALSE)
    /\ r_margin = InitialMargin(FALSE)
    /\ col_w \in { [i \in 1..9 |-> IF i = ICD10_COL + 1 THEN w
                                  ELSE InitialColumns(TRUE, FALSE)[i]] :
                      w \in WrapWidths }
    /\ cur_y = 0
    /\ iterations = 0
    /\ drawn = <<>>
    /\ pdf_totals = NoTotals
    /\ messages = <<>>

\* h_est = wrapped_height(str(text or ""), col_w[i], row_h, table_font).
MeasureCell ==
    /\ pc = "measure"
    /\ pc' = "measured"
    /\ drawn' = MeasuredCell(rows, col_w, row_h, table_font)
    /\ UNCHANGED <<formVars, invoice_counter, updVars, portrait, compact, rows, min_font_portrait, table_font,
                   row_h, l_margin, r_margin, col_w, cur_y, iterations, pdf_totals,
                   messages>>

\* The ICD-10 column made narrower (col_widths[d] -= take) and the cell
\* measured again.
NarrowColumn(take) ==
    /\ pc = "measured"
    /\ At(col_w, ICD10_COL) - take \in WrapWidths
    /\ col_w' = [col_w EXCEPT ![ICD10_COL + 1] = @ - take]
    /\ drawn' = MeasuredCell(rows, col_w', row_h, table_font)
    /\ UNCHANGED <<formVars, invoice_counter, updVars, pc, portrait, compact, rows, min_font_portrait,
                   table_font, row_h, l_margin, r_margin, cur_y, iterations,
                   pdf_totals, messages>>

NextWrap ==
    \/ MeasureCell
    \/ \E take \in TakeChoices : NarrowColumn(take)

SpecWrap == InitWrap /\ [][NextWrap]_vars

(***************************************************************************)
(* fitted_font_size_for_text on its own: the font chosen for the Tariff    *)
(* cell of one row, for a text, a table font and a column width.           *)
(***************************************************************************)
MaxDigits == 12

MaxCellMm == 20

\* Texts of digits, none to MaxDigits of them.
CellTexts == { Rep("0", n) : n \in 0..MaxDigits }

TARIFF_COL == 4

\* min_cell_font = 6.0, in tenths of a point.
min_cell_font == 60

\* A row whose Tariff cell holds the text, the other cells empty.
TariffRow(text) == [i \in 1..9 |-> IF i = TARIFF_COL + 1 THEN text ELSE Empty]

\* The Tariff cell of the first row as draw_row prints it: pdf.set_font with
\* the fitted size, then pdf.cell.
FittedCell(rs, widths, font_size) ==
    << [kind |-> "cell", idx |-> TARIFF_COL,
        font |-> fitted_font_size_for_text(At(rs[1], TARIFF_COL),
                                           font_size,
                                           At(widths, TARIFF_COL),
                                           min_cell_font)] >>

InitCell ==
    /\ lines = << add_line_item(NewLine(InvoiceDate), FALSE, TRUE) >>
    /\ vat_rate = DEFAULT_VAT_RATE
    /\ vat_var = PercentText(DEFAULT_VAT_RATE)
    /\ ui_ready = TRUE
    /\ labels = recalc_totals(lines, DEFAULT_VAT_RATE, TRUE, LabelsInit)
    /\ min_portrait_font_var = 50
    /\ invoice_counter = DefaultLastInvoice
    /\ invoice_no = format_invoice_no(peek_next_invoice_number(invoice_counter))
    /\ UpdateIdle
    /\ pc = "fit"
    /\ portrait = TRUE
    /\ compact = FALSE
    /\ \E text \in CellTexts : rows = << TariffRow(text) >>
    /\ min_font_portrait = 50
    /\ table_font \in FontChoices
    /\ row_h = BaseRowHeight(TRUE, FALSE)
    /\ l_margin = InitialMargin(FALSE)
    /\ r_margin = InitialMargin(FALSE)
    /\ col_w \in { [i \in 1..9 |-> IF i = TARIFF_COL + 1 THEN mm * UnitsPerMm
                                  ELSE InitialColumns(TRUE, FALSE)[i]] :
                      mm \in 2..MaxCellMm }
    /\ cur_y = 0
    /\ iterations = 0
    /\ drawn = <<>>
    /\ pdf_totals = NoTotals
    /\ messages = <<>>

\* Lines 1179-1183: fit_font = fitted_font_size_for_text(txt, table_font, w,
\* pad=1.6, min_font=min_cell_font); pdf.set_font(..., fit_font); pdf.cell.
FitCell ==
    /\ pc = "fit"
    /\ pc' = "fitted"
    /\ drawn' = FittedCell(rows, col_w, table_font)
    /\ UNCHANGED <<formVars, invoice_counter, updVars, portrait, compact, rows, min_font_portrait, table_font,
                   row_h, l_margin, r_margin, col_w, cur_y, iterations, pdf_totals,
                   messages>>

NextCell == FitCell

SpecCell == InitCell /\ [][NextCell]_vars

(***************************************************************************)
(* The VAT rate under every way the form sets it: texts typed into the VAT *)
(* entry, in and out of the range of a percentage, drafts with the rate    *)
(* save_draft wrote from such a form, and the reset.                       *)
(***************************************************************************)
VatRangeTexts == VatTexts \cup { <<"1", "5", "0">>, <<"1", "0", "0">>,
                                 <<"-", "1", "0", "0">> }

\* A draft saved after "150" was typed into the VAT entry: float(vat_rate)
\* is 1.5.
VatDraftFiles ==
    DraftFiles \cup
    { [has_vat |-> TRUE, vat_rate |-> Dec(FALSE, 15, 1),
       has_min_font |-> TRUE, min_portrait_font |-> 62, invoice_no |-> Empty,
       lines |-> << DraftLine(<<"2">>, <<"R", "1", "0", "0", ".", "0", "0">>,
                              <<"2", "0", "0", ".", "0", "0">>) >>] }

NextVat ==
    \/ \E t \in VatRangeTexts : OnVatChange(t)
    \/ \E i \in 1..MaxLines, t \in QtyTexts : EditQty(i, t)
    \/ \E i \in 1..MaxLines, t \in PriceTexts : EditPrice(i, t)
    \/ \E i \in 1..MaxLines, r \in ServiceSheet : SelectService(i, r)
    \/ \E d \in VatDraftFiles : LoadDraft(d)
    \/ ResetForm

SpecVat == Init /\ [][NextVat]_vars

(***************************************************************************)
(***************************************************************************)
(* The invoice number: the entry filled by peeking, by a draft or by a     *)
(* reset, and the counter file written when a PDF has been saved.          *)
(***************************************************************************)
\* Drafts whose "invoice_no" is below, at and above the stored counter, a
\* bare number, and a text that is no number.
CounterDraftFiles ==
    DraftFiles \cup
    { [has_vat |-> FALSE, vat_rate |-> DEFAULT_VAT_RATE,
       has_min_font |-> FALSE, min_portrait_font |-> 62, invoice_no |-> t,
       lines |-> <<>>] :
      t \in { format_invoice_no(DefaultLastInvoice - 1),
              format_invoice_no(DefaultLastInvoice),
              format_invoice_no(DefaultLastInvoice + MaxInvoices),
              NatToText(DefaultLastInvoice + 1),
              <<"a", "b", "c">> } }

NextCounter ==
    \/ AddLine
    \/ \E i \in 1..MaxLines : RemoveLine(i)
    \/ \E d \in CounterDraftFiles : LoadDraft(d)
    \/ ResetForm
    \/ \E p \in BOOLEAN, o \in SaveOutcomes : GeneratePdf(p, FALSE, 0, o)

SpecCounter == Init /\ [][NextCounter]_vars

(***************************************************************************)
(* The update check step by step: "Check for updates" clicked, the answer  *)
(* to the offer, the download, the integrity check and the launch.         *)
(***************************************************************************)
restVars == <<formVars, pdfVars, invoice_counter>>

\* Lines 65-88: the manifest fetched (or not), its fields read and the
\* versions compared, up to the question put to the user.
CheckForUpdates(reachable, m) ==
    /\ Quiescent
    /\ confirmed' = FALSE
    /\ dl_hash' = NoFile
    /\ IF ~reachable
       THEN /\ manifest' = NoManifest
            /\ upd_pc' = "idle"
            /\ upd_messages' = << "Could not reach update server" >>
       ELSE /\ manifest' = ReadManifest(m)
            /\ IF manifest'.latest = Empty \/ manifest'.win_url = Empty
               THEN /\ upd_pc' = "idle"
                    /\ upd_messages' = << "Update manifest is missing required fields" >>
               ELSE IF UpToDate(manifest'.latest)
               THEN /\ upd_pc' = "idle"
                    /\ upd_messages' = << "Up to date" >>
               ELSE /\ upd_pc' = "offered"
                    /\ upd_messages' = << "Update available" >>
    /\ UNCHANGED <<installer_started, app_closed, restVars>>

\* Lines 87-88: the answer to "Download & install now?".
AnswerOffer(yes) ==
    /\ upd_pc = "offered"
    /\ confirmed' = yes
    /\ upd_pc' = IF yes THEN "download" ELSE "idle"
    /\ UNCHANGED <<manifest, dl_hash, installer_started, app_closed, upd_messages,
                   restVars>>

\* Lines 91-96: urlretrieve leaves a file of digest h at dl_path, or raises.
Download(ok, h) ==
    /\ upd_pc = "download"
    /\ IF ok
       THEN /\ dl_hash' = h
            /\ upd_pc' = IF manifest.win_sha # Empty THEN "verify" ELSE "launch"
            /\ UNCHANGED upd_messages
       ELSE /\ dl_hash' = NoFile
            /\ upd_pc' = "idle"
            /\ upd_messages' = Append(upd_messages, "Download failed")
    /\ UNCHANGED <<manifest, confirmed, installer_started, app_closed, restVars>>

\* Lines 99-111: the digest computed (or the file unreadable) and compared;
\* a file that fails the check is removed when os.remove can.
Verify(readable, removed) ==
    /\ upd_pc = "verify"
    /\ IF ~readable
       THEN /\ upd_pc' = "idle"
            /\ upd_messages' = Append(upd_messages, "Integrity check error")
            /\ UNCHANGED dl_hash
       ELSE IF HashAccepted(dl_hash, manifest.win_sha)
       THEN /\ upd_pc' = "launch"
            /\ UNCHANGED <<dl_hash, upd_messages>>
       ELSE /\ upd_pc' = "idle"
            /\ upd_messages' = Append(upd_messages,
                                      "Downloaded file failed integrity check")
            /\ dl_hash' = IF removed THEN NoFile ELSE dl_hash
    /\ UNCHANGED <<manifest, confirmed, installer_started, app_closed, restVars>>

\* Lines 114-119: the installer started and the window destroyed, or Popen
\* raising.
Launch(ok) ==
    /\ upd_pc = "launch"
    /\ upd_pc' = "idle"
    /\ IF ok
       THEN /\ installer_started' = TRUE
            /\ app_closed' = TRUE
            /\ UNCHANGED upd_messages
       ELSE /\ upd_messages' = Append(upd_messages, "Could not start installer")
            /\ UNCHANGED <<installer_started, app_closed>>
    /\ UNCHANGED <<manifest, confirmed, dl_hash, restVars>>

NextUpdate ==
    \/ \E r \in BOOLEAN, m \in Manifests : CheckForUpdates(r, m)
    \/ \E yes \in BOOLEAN : AnswerOffer(yes)
    \/ \E ok \in BOOLEAN, h \in FileHashes : Download(ok, h)
    \/ \E readable \in BOOLEAN, removed \in BOOLEAN : Verify(readable, removed)
    \/ \E ok \in BOOLEAN : Launch(ok)

SpecUpdate == Init /\ [][NextUpdate]_vars

(* Properties of the totals.                                               *)
(***************************************************************************)
\* A two-decimal amount in cents.
Cents(d) == SignedCoef(d)

\* 0 <= rate < 1.
RateInUnitRange(rate) == ~rate.neg /\ rate.coef < Pow10(rate.scale)

\* e cents is gross / (1 + rate) rounded to the cent, a tie going up:
\* -1/2 < gross / (1 + rate) - e <= ... stated without division.
IsHalfUpQuotient(e, g, rate) ==
    LET den == Pow10(rate.scale) + rate.coef
        num == g * Pow10(rate.scale)
    IN  /\ 2 * e * den - 2 * num <= den
        /\ 2 * num - 2 * e * den < den

SplitsExactly(gross, ex, vat, rate) ==
    /\ gross.scale = 2 /\ ex.scale = 2 /\ vat.scale = 2
    /\ Cents(ex) + Cents(vat) = Cents(gross)
    /\ Cents(vat) = Cents(gross) - Cents(ex)
    /\ IsHalfUpQuotient(Cents(ex), Cents(gross), rate)

\* C1: for every gross and every rate in [0,1), the totals shown by
\* recalc_totals and printed by either PDF branch satisfy ex + vat = gross,
\* vat = gross - ex, with ex = gross / (1 + rate) rounded half-up to the cent.
C1_TaxIdentity ==
    RateInUnitRange(vat_rate) =>
        /\ SplitsExactly(labels.total, labels.ex, labels.vat, vat_rate)
        /\ pc = "done" =>
              SplitsExactly(pdf_totals.gross, pdf_totals.ex, pdf_totals.vat, vat_rate)

\* R1.00 at 15%: 86.956... rounds up to 0.87, on screen and in a landscape PDF.
C1_Witness ==
    /\ pc = "done" /\ ~portrait
    /\ vat_rate = DEFAULT_VAT_RATE
    /\ pdf_totals.gross = Dec(FALSE, 100, 2)
    /\ pdf_totals.ex = Dec(FALSE, 87, 2)
    /\ pdf_totals.vat = Dec(FALSE, 13, 2)
    /\ labels.ex = Dec(FALSE, 87, 2)

\* C2: at rate 0 the split is ex = gross, vat = 0.00, on screen and in both
\* PDF branches, and the division is not evaluated.
C2_ZeroRate ==
    IsZero(vat_rate) =>
        /\ labels.ex = labels.total /\ labels.vat = ZeroCents /\ ~labels.divided
        /\ pc = "done" =>
              /\ pdf_totals.ex = pdf_totals.gross
              /\ pdf_totals.vat = ZeroCents
              /\ ~pdf_totals.divided

C2_Witness ==
    /\ pc = "done" /\ portrait
    /\ IsZero(vat_rate)
    /\ pdf_totals.gross = Dec(FALSE, 150, 2)
    /\ pdf_totals.ex = Dec(FALSE, 150, 2)
    /\ labels.total = Dec(FALSE, 150, 2)

(***************************************************************************)
(* Properties of the line items.                                           *)
(***************************************************************************)
ValidLine(l) == money_to_decimal(l.Qty).ok /\ money_to_decimal(l.Price).ok

\* round_half_up(quantity x unit price, 2) as the text of a Total entry.
ProductText(l) ==
    TextOfDecimal(QuantizeHalfUp(DecMul(money_to_decimal(l.Qty),
                                        money_to_decimal(l.Price)), 2))

ValidLines(ls) == SelectSeq(ls, ValidLine)

ProductTexts(ls) == [i \in 1..Len(ls) |-> ProductText(ls[i])]

\* C3: after any sequence of add line, edit quantity, edit price, select
\* service, remove line, load draft and reset form, the Total entry of every
\* line holds round_half_up(quantity x unit price, 2) of the quantity and
\* price the line holds.
C3_TotalFollowsQtyAndPrice ==
    \A i \in 1..Len(lines) :
        ValidLine(lines[i]) => lines[i].Total = ProductText(lines[i])

\* The scenario of C4 computed by update_total and recalc_totals.
ScenarioLines ==
    << update_total(DraftLine(<<"1">>, <<"R", "1", "0", "0", ".", "0", "0">>, Empty)),
       update_total(DraftLine(<<"2">>, <<"R", "5", "0", ".", "0", "0">>, Empty)),
       update_total(DraftLine(<<"1">>, <<"R", "2", "5", "0", ".", "0", "0">>, Empty)) >>

ScenarioHolds ==
    /\ TotalTexts(ScenarioLines) = << <<"1", "0", "0", ".", "0", "0">>,
                                      <<"1", "0", "0", ".", "0", "0">>,
                                      <<"2", "5", "0", ".", "0", "0">> >>
    /\ recalc_totals(ScenarioLines, DEFAULT_VAT_RATE, TRUE, LabelsInit)
         = [ex |-> Dec(FALSE, 39130, 2), vat |-> Dec(FALSE, 5870, 2),
            total |-> Dec(FALSE, 45000, 2), pct |-> 15, divided |-> TRUE]

\* C4: when every row has a valid quantity and price, each line total is
\* round_half_up(quantity x price, 2), the gross shown is the sum of these
\* line totals, ex and vat follow from the gross and the rate; the scenario
\* [1,2,1] x [R100.00, R50.00, R250.00] at 0.15 gives 450.00, 391.30, 58.70.
C4_ValidRowsTotals ==
    /\ ScenarioHolds
    /\ (\A i \in 1..Len(lines) : ValidLine(lines[i])) =>
          /\ \A i \in 1..Len(lines) : lines[i].Total = ProductText(lines[i])
          /\ labels.total = fmt_money(GrossOf(ProductTexts(lines)))
          /\ RateInUnitRange(vat_rate) =>
                SplitsExactly(labels.total, labels.ex, labels.vat, vat_rate)

C6_EmptyTable ==
    (pc = "done" /\ rows = <<>>) =>
        /\ Len(drawn) = 2
        /\ drawn[1].kind = "header"
        /\ drawn[2].kind = "totals"
        /\ \A i \in 1..Len(drawn) : drawn[i].kind # "row"
        /\ pdf_totals.gross = ZeroCents
        /\ pdf_totals.ex = ZeroCents
        /\ pdf_totals.vat = ZeroCents

\* The only line removed, then a portrait PDF at the default rate.
C6_Witness ==
    /\ pc = "done" /\ portrait
    /\ lines = <<>> /\ rows = <<>>
    /\ vat_rate = DEFAULT_VAT_RATE
    /\ Len(drawn) = 2

(***************************************************************************)
(* Properties of the portrait shrink loop.                                 *)
(***************************************************************************)
InPortraitFit == portrait /\ pc \in {"loop", "draw", "done"}

\* A step that executes the loop body once.
LoopPass == pc = "loop" /\ iterations' = iterations + 1

FontChanged == table_font' # table_font

RowHeightChanged == row_h' # row_h

MarginsChanged == <<l_margin', r_margin'>> # <<l_margin, r_margin>>

\* C7 as stated: the loop runs at most (baseFont - minFont)/0.2 +
\* (baseRow - minRow)/0.08 + (margin - 6) passes; both sides times 8.
C7_StatedIterationBound ==
    InPortraitFit =>
        8 * iterations <= 4 * (BaseTableFont(TRUE, compact) - min_font_portrait)
                          + (BaseRowHeight(TRUE, compact) - min_row_h)
                          + 8 * (InitialMargin(compact) - 6)

\* C7: the loop ends, after at most max(0, (baseFont - minFont)/0.2) +
\* (baseRow - minRow)/0.08 + (margin - 6) + 1 executions of its body, the
\* last being the pass that leaves by break; both sides times 8.
C7_IterationBound ==
    InPortraitFit =>
        8 * iterations <= 4 * Max(0, BaseTableFont(TRUE, compact) - min_font_portrait)
                          + (BaseRowHeight(TRUE, compact) - min_row_h)
                          + 8 * (InitialMargin(compact) - 6)
                          + 8

\* Minimum font 10.0 above the base font 8.2: 15 row-height passes, 4 margin
\* passes and the breaking pass.
C7_Witness ==
    /\ portrait /\ ~compact /\ pc = "draw"
    /\ min_font_portrait = 100
    /\ iterations = 20
    /\ row_h = min_row_h /\ l_margin = 6

\* C8 as stated: a pass that goes on makes exactly one adjustment, the row
\* height only with the font at its floor, the margins only with both there.
C8_OneAdjustmentPerPass ==
    [][ (LoopPass /\ pc' = "loop") =>
            /\ \/ FontChanged /\ ~RowHeightChanged /\ ~MarginsChanged
               \/ ~FontChanged /\ RowHeightChanged /\ ~MarginsChanged
               \/ ~FontChanged /\ ~RowHeightChanged /\ MarginsChanged
            /\ RowHeightChanged => table_font <= min_font_portrait
            /\ MarginsChanged => (table_font <= min_font_portrait /\ row_h <= min_row_h)
      ]_vars

\* C8: every pass lowers the font by 0.2 if it is above its floor and the
\* row height by 0.08 if it is above its floor, both in the same pass when
\* both are; the margins shrink by 1mm toward 6 only in a pass that lowered
\* neither, and a pass that can change nothing leaves the loop.
C8_PassAdjustments ==
    [][ LoopPass =>
            /\ table_font' = IF table_font > min_font_portrait
                             THEN table_font - 2 ELSE table_font
            /\ row_h' = IF row_h > min_row_h THEN row_h - 8 ELSE row_h
            /\ IF FontChanged \/ RowHeightChanged
               THEN ~MarginsChanged /\ pc' = "loop"
               ELSE /\ l_margin' = Max(l_margin - 1, 6)
                    /\ r_margin' = Max(r_margin - 1, 6)
                    /\ (pc' = "loop") = MarginsChanged
      ]_vars

\* After the first pass of a normal-density call: font and row height both lowered.
C8_Witness ==
    /\ portrait /\ ~compact /\ pc = "loop"
    /\ iterations = 1
    /\ table_font = BaseTableFont(TRUE, FALSE) - 2
    /\ row_h = BaseRowHeight(TRUE, FALSE) - 8

\* C9: a pass of the loop never sets the table font below the configured
\* minimum (the spinner value clamped to 5.0..10.0).
C9_FontNotBelowMinimum ==
    [][ (LoopPass /\ FontChanged) => table_font' >= min_font_portrait ]_vars

\* C10: in every state of generate_pdf both margins are at least 6; they
\* start at 6 (compact) or 10 and change only in a margin-shrink pass of
\* the loop, one with font and row height at their floors.
C10_MarginsOnlyShrunkByLoop ==
    [][ pc' # "idle" =>
            /\ l_margin' >= 6 /\ r_margin' >= 6
            /\ IF pc \in {"idle", "done"}
               THEN /\ l_margin' = InitialMargin(compact')
                    /\ r_margin' = InitialMargin(compact')
               ELSE MarginsChanged =>
                       /\ LoopPass
                       /\ table_font <= min_font_portrait /\ ~FontChanged
                       /\ row_h <= min_row_h /\ ~RowHeightChanged
                       /\ l_margin' = Max(l_margin - 1, 6)
                       /\ r_margin' = Max(r_margin - 1, 6)
      ]_vars

\* Two margin passes into a normal-density call.
C10_Witness ==
    /\ portrait /\ ~compact /\ pc = "loop"
    /\ l_margin = 8 /\ r_margin = 8
    /\ row_h = min_row_h

(***************************************************************************)
(* Properties of the loop's exit and of the drawing of the table.          *)
(***************************************************************************)
EstimateFits == ~Overflows(CurrentLocals, rows, compact, cur_y)

AllAtFloors ==
    /\ table_font <= min_font_portrait
    /\ row_h <= min_row_h
    /\ l_margin <= 6 /\ r_margin <= 6

\* C11: the loop adjusts nothing once the estimate fits the free height,
\* and it is left only with the estimate fitting or with font, row height
\* and both margins at (not above) their floors.
C11_ExitFitsOrFloors ==
    [][ pc = "loop" =>
            /\ EstimateFits =>
                  /\ pc' = "draw"
                  /\ UNCHANGED <<table_font, row_h, l_margin, r_margin, col_w, iterations>>
            /\ pc' # "loop" =>
                  /\ UNCHANGED <<table_font, row_h, l_margin, r_margin, col_w>>
                  /\ EstimateFits \/ AllAtFloors
      ]_vars

\* The loop left by break at the default minimum font: everything at its
\* floor and the estimate still above the free height.
C11_Witness ==
    /\ portrait /\ ~compact /\ pc = "draw"
    /\ min_font_portrait = 62
    /\ ~EstimateFits
    /\ AllAtFloors
    /\ iterations = 20

\* The loop left with a fit that took passes to reach.
FitAfterShrinking == portrait /\ pc = "draw" /\ iterations > 0 /\ EstimateFits

\* The call ended in a degraded fit: the loop exhausted the floors and the
\* estimate still exceeds the free height.
DegradedFit == portrait /\ pc = "done" /\ ~EstimateFits /\ AllAtFloors

\* C12: when the loop exhausts the floors without a fit, a degraded-fit
\* warning is among the messages reported by the call; the table is drawn
\* all the same, with the smallest configuration.
C12_DegradedFitReported ==
    DegradedFit =>
        /\ \E i \in 1..Len(messages) : messages[i] = "DegradedFitWarning"
        /\ Len(drawn) = Len(rows) + 2

\* The entries of drawn that are rows of the table, in drawing order.
RowEntries == SelectSeq(drawn, LAMBDA e : e.kind = "row")

\* C13: when the drawing is over, in either orientation and in a degraded
\* fit too, every row handed to the renderer has been drawn exactly once,
\* framed at a y position on the page side of the table start with the
\* height computed for it (at least the base row height, so never cut).
C13_EveryRowDrawnOnce ==
    pc = "done" =>
        /\ Len(RowEntries) = Len(rows)
        /\ \A i \in 1..Len(rows) :
              /\ Cardinality({k \in 1..Len(drawn) :
                                 drawn[k].kind = "row" /\ drawn[k].idx = i}) = 1
              /\ RowEntries[i].idx = i
              /\ RowEntries[i].h = RowHeight(rows[i], col_w, row_h, table_font)
              /\ RowEntries[i].h >= row_h /\ row_h > 0
              /\ RowEntries[i].y >= TopOfPage(compact)

\* A degraded fit whose rows are all drawn, the last of them beyond the
\* page-break trigger.
C13_Witness ==
    /\ DegradedFit
    /\ Len(rows) = MaxLines
    /\ Len(RowEntries) = MaxLines
    /\ RowEntries[MaxLines].newpage

\* The same in landscape, with a row made taller by wrapped text.
C13_LandscapeRows ==
    /\ ~portrait /\ pc = "done"
    /\ Len(rows) > 0
    /\ Len(RowEntries) = Len(rows)
    /\ RowEntries[1].h > row_h + 60

\* C14: the drawing is the header once, then the rows in input order, then
\* the totals line once; the first row starts where the header ends and
\* every later row at the previous row's y plus the previous row's height.
C14_HeaderRowsTotalsInOrder ==
    pc = "done" =>
        /\ Len(drawn) = Len(rows) + 2
        /\ drawn[1].kind = "header"
        /\ drawn[Len(drawn)].kind = "totals"
        /\ \A k \in 2..(Len(drawn) - 1) :
              /\ drawn[k].kind = "row"
              /\ drawn[k].idx = k - 1
              /\ drawn[k].y = drawn[k - 1].y + drawn[k - 1].h

\* Two rows drawn, the first made taller than the base height by wrapped
\* text, the second starting where it ends, the totals line last.
C14_Witness ==
    /\ pc = "done"
    /\ Len(rows) = 2 /\ Len(drawn) = 4
    /\ drawn[2].h > row_h + 60
    /\ drawn[3].y = drawn[2].y + drawn[2].h
    /\ drawn[4].kind = "totals"

(***************************************************************************)
(* Properties of the allocation of the column widths.                      *)
(***************************************************************************)
\* Measured width of "0000000000" plus the 3mm padding.
NappiNeed == StringWidth(Rep("0", 10), table_font) + 3 * UnitsPerMm

\* Measured width of "R0000000.00" plus the 3mm padding.
UnitPriceNeed ==
    StringWidth(<<"R">> \o Rep("0", 7) \o <<".", "0", "0">>, table_font) + 3 * UnitsPerMm

\* The width between the margins covers the two protected minimums and the
\* 14mm floors of the four donors.
WidthCoversMinimums ==
    AvailWidth * UnitsPerMm >= NappiNeed + UnitPriceNeed + 4 * 14 * UnitsPerMm

\* The widths as split by weight, before any protection.
SplitWidths ==
    SplitByWeight(AvailWidth, IF portrait THEN portrait_weights ELSE landscape_weights)

\* C15: when the width between the margins covers the protected minimums
\* and the donor floors, the NAPPI column is at least its minimum after its
\* protection call and the unit-price column at least its minimum after
\* its own, and they stay so when the protection is repeated; the
\* unit-price call leaves the NAPPI column's width as it was.
C15_ProtectedColumnsKeepMinimum ==
    [][ /\ (WidthCoversMinimums /\ pc' \in {"nappi", "protected", "reprotected"})
              => At(col_w', NAPPI_COL) >= NappiNeed
        /\ (WidthCoversMinimums /\ pc' \in {"protected", "reprotected"})
              => At(col_w', UNIT_PRICE_COL) >= UnitPriceNeed
        /\ (pc = "nappi" /\ pc' = "protected")
              => At(col_w', NAPPI_COL) = At(col_w, NAPPI_COL)
      ]_vars

\* Portrait at the base font 8.2 with 10mm margins: the split leaves both
\* columns under their minimums and the two calls raise them to those.
C15_Witness ==
    /\ pc = "protected" /\ portrait
    /\ table_font = 82 /\ l_margin = 10
    /\ WidthCoversMinimums
    /\ At(SplitWidths, NAPPI_COL) < NappiNeed
    /\ At(SplitWidths, UNIT_PRICE_COL) < UnitPriceNeed
    /\ At(col_w, NAPPI_COL) = NappiNeed
    /\ At(col_w, UNIT_PRICE_COL) = UnitPriceNeed

\* C16: the widths are a function of the width between the margins, the
\* weights and the font (the widths held after the two calls are those the
\* allocation gives again from the same inputs), and a protection call
\* applied to widths it has returned changes none of them, alone or as the
\* pair of calls the loop repeats.
C16_AllocationIdempotent ==
    [][ /\ pc' = "protected" => col_w' = ProtectColumns(SplitWidths, table_font)
        /\ pc' = "nappi" =>
              ProtectNappi(col_w', table_font) = col_w'
        /\ pc' = "protected" =>
              ProtectUnitPrice(col_w', table_font) = col_w'
        /\ (pc = "protected" /\ pc' = "reprotected") => col_w' = col_w
      ]_vars

\* The pair of calls repeated on widths both calls had changed.
C16_Witness ==
    /\ pc = "reprotected" /\ portrait
    /\ table_font = 82 /\ l_margin = 10
    /\ At(col_w, NAPPI_COL) > At(SplitWidths, NAPPI_COL)
    /\ At(col_w, UNIT_PRICE_COL) > At(SplitWidths, UNIT_PRICE_COL)
    /\ At(col_w, 2) < At(SplitWidths, 2)
    /\ col_w = ProtectColumns(SplitWidths, table_font)

(***************************************************************************)
(* Properties of wrapped_height.                                           *)
(***************************************************************************)
\* The text, the column width and the estimate of the measured cell.
CellText == At(rows[1], ICD10_COL)

CellWidth == At(col_w, ICD10_COL)

CellHeight == drawn[1].h

\* C17: for a fixed text, font and line height the estimate does not
\* decrease when the column is made narrower.
C17_HeightMonotoneInWidth ==
    [][ (pc = "measured" /\ pc' = "measured" /\ CellWidth' < CellWidth)
            => CellHeight' >= CellHeight
      ]_vars

\* "i 00 i" at font 8.2, measured as three lines ("i", "00", "i") in a
\* 5.0mm column: narrowed to 4.7mm, "00" no longer fits as a word, is
\* packed by characters onto the line of the first "i", and the estimate
\* is two lines ("i0", "0 i").
C17_FewerLinesWhenNarrower ==
    /\ pc = "measured"
    /\ table_font = 82
    /\ CellText = <<"i", " ", "0", "0", " ", "i">>
    /\ CellWidth = 47 * (UnitsPerMm \div 10)
    /\ CellHeight = 2 * row_h + 80
    /\ wrapped_height(CellText, 50 * (UnitsPerMm \div 10), row_h, table_font)
          = 3 * row_h + 80

\* A word of the text is wider than the usable width of the column.
HasOverWideToken ==
    \E k \in 1..Len(SplitWords(CellText, <<>>)) :
        StringWidth(SplitWords(CellText, <<>>)[k], table_font) > UsableWidth(CellWidth)

\* Every character of the text fits the usable width by itself.
EachCharFits ==
    \A k \in 1..Len(CellText) :
        StringWidth(<<CellText[k]>>, table_font) <= UsableWidth(CellWidth)

\* C18: for a text with a word wider than the usable width (column width
\* less 1.6mm), each single character fitting, every line counted is at
\* most the usable width wide, more than one line is counted, and the
\* estimate is the number of lines times the line height plus 0.8.
C18_OverWideTokenPacked ==
    (pc = "measured" /\ HasOverWideToken /\ EachCharFits) =>
        /\ PackedText(CellText, CellWidth, table_font)[2] <= UsableWidth(CellWidth)
        /\ PackedText(CellText, CellWidth, table_font)[1] > 1
        /\ CellHeight = PackedText(CellText, CellWidth, table_font)[1] * row_h + 80

\* "000000" alone at font 8.2 in a 5.0mm column (usable 3.4mm, two
\* characters to a line): three lines.
C18_Witness ==
    /\ pc = "measured"
    /\ table_font = 82
    /\ CellText = Rep("0", 6)
    /\ CellWidth = 50 * (UnitsPerMm \div 10)
    /\ HasOverWideToken /\ EachCharFits
    /\ CellHeight = 3 * row_h + 80

(***************************************************************************)
(* Properties of the two orientations and of the loop's progress.          *)
(***************************************************************************)
\* The estimate of the table's height and the free height below the table
\* start, with the sizes of the call's orientation.
TableEstimate ==
    table_total_height(rows, table_font, row_h, col_w, HeaderHeight(portrait, compact))

FreeHeight == free_height(portrait, compact, cur_y)

\* C19: in either orientation the header is drawn only with the estimate
\* within the free height or after the shrink loop has brought font, row
\* height and margins to their floors.
C19_ShrinkLoopInBothOrientations ==
    (pc = "draw" /\ TableEstimate > FreeHeight) => AllAtFloors

\* A landscape call about to draw a table estimated higher than the free
\* height, with the base font, the base row height and the initial margins.
C19_LandscapeDrawnUnshrunk ==
    /\ ~portrait /\ pc = "draw"
    /\ TableEstimate > FreeHeight
    /\ iterations = 0
    /\ table_font = BaseTableFont(FALSE, compact)
    /\ row_h = BaseRowHeight(FALSE, compact)
    /\ l_margin = InitialMargin(compact)

\* C20: a pass of the loop raises none of font, row height, left margin
\* and right margin, and a pass after which the loop goes on has lowered
\* at least one of them.
C20_PassesStrictlyShrink ==
    [][ LoopPass =>
            /\ table_font' <= table_font
            /\ row_h' <= row_h
            /\ l_margin' <= l_margin
            /\ r_margin' <= r_margin
            /\ pc' = "loop" =>
                  \/ table_font' < table_font
                  \/ row_h' < row_h
                  \/ l_margin' < l_margin
                  \/ r_margin' < r_margin
      ]_vars

\* A compact call after ten passes: the row height has come down from 4.0
\* to its floor and the font with it, and the loop goes on.
C20_Witness ==
    /\ portrait /\ compact /\ pc = "loop"
    /\ iterations = 10
    /\ row_h = min_row_h
    /\ table_font < BaseTableFont(TRUE, TRUE)

(***************************************************************************)
(* Properties of the widths inside the loop, of the donors and of the      *)
(* fitted cell font.                                                       *)
(***************************************************************************)
\* C21: in every state of a portrait call from the loop on, so after every
\* pass of the loop, the NAPPI and the unit-price column are at least as
\* wide as their sample measured at the current table font plus padding.
C21_ProtectedAfterEveryPass ==
    InPortraitFit =>
        /\ At(col_w, NAPPI_COL) >= NappiNeed
        /\ At(col_w, UNIT_PRICE_COL) >= UnitPriceNeed

\* After a margin pass with the font kept at 8.2 by a minimum above it: the
\* widths were split again from the weights, which leaves both columns
\* short, and the protection calls raised them.
C21_Witness ==
    /\ portrait /\ ~compact /\ pc = "loop"
    /\ table_font = 82 /\ l_margin = 9
    /\ At(SplitByWeight(PageWidth(TRUE) - l_margin - r_margin, portrait_weights),
          NAPPI_COL) < NappiNeed
    /\ At(col_w, NAPPI_COL) = NappiNeed
    /\ At(col_w, UNIT_PRICE_COL) >= UnitPriceNeed

\* The donors' floor, 14mm.
DonorFloor == 14 * UnitsPerMm

\* What a protection step is about to protect: the column and its need.
StepTarget == IF pc = "split" THEN NAPPI_COL ELSE UNIT_PRICE_COL

StepNeed == IF pc = "split" THEN NappiNeed ELSE UnitPriceNeed

StepDeficit == Max(0, StepNeed - At(col_w, StepTarget))

\* What column d gives up in the step.
Taken(d) == At(col_w, d) - At(col_w', d)

ProtectionStep == pc \in {"split", "nappi"} /\ pc' # pc

\* C22: in a protection call a donor wider than 14mm ends at 14mm or more
\* and one at or below 14mm is left as it was; a donor gives only when
\* every donor listed before it is down to the floor; the donors together
\* give no more than the deficit; columns that are neither donor nor target
\* keep their width.
C22_DonorsKeepFloor ==
    [][ ProtectionStep =>
            /\ \A k \in 1..Len(donors_portrait) :
                  /\ Taken(donors_portrait[k]) >= 0
                  /\ At(col_w, donors_portrait[k]) > DonorFloor
                        => At(col_w', donors_portrait[k]) >= DonorFloor
                  /\ At(col_w, donors_portrait[k]) <= DonorFloor
                        => Taken(donors_portrait[k]) = 0
                  /\ Taken(donors_portrait[k]) > 0
                        => \A j \in 1..(k - 1) :
                              At(col_w', donors_portrait[j]) <= DonorFloor
            /\ SumSeq([k \in 1..Len(donors_portrait) |-> Taken(donors_portrait[k])])
                  <= StepDeficit
            /\ \A d \in {0, 6, 8} : Taken(d) = 0
      ]_vars

\* Portrait at font 8.2 with 55mm margins, after the NAPPI call: the first
\* donor went down to the floor, the second gave the rest of the deficit and
\* stays above the floor, the third, below the floor, gave nothing.
C22_Witness ==
    /\ pc = "nappi" /\ portrait
    /\ table_font = 82 /\ l_margin = 55
    /\ At(col_w, 2) = DonorFloor
    /\ At(col_w, 3) > DonorFloor
    /\ At(col_w, 3) < At(SplitWidths, 3)
    /\ At(col_w, 1) = At(SplitWidths, 1)
    /\ At(col_w, 1) < DonorFloor
    /\ At(col_w, NAPPI_COL) = NappiNeed

\* What the donors give together in the step, and the part of the deficit
\* they leave uncovered.
TakenByDonors ==
    SumSeq([k \in 1..Len(donors_portrait) |-> Taken(donors_portrait[k])])

Uncovered == StepDeficit - TakenByDonors

DonorsExhausted ==
    \A k \in 1..Len(donors_portrait) : At(col_w, donors_portrait[k]) <= DonorFloor

\* C23: a protection call leaves its column at the larger of its width and
\* its need, whatever the donors could give; the donors leave part of the
\* deficit uncovered only when all of them end at or below the floor, and
\* the sum of the widths grows by exactly that part (so after the first
\* call on the split widths it is the usable width plus that part).
C23_TargetRaisedWhenExhausted ==
    [][ ProtectionStep =>
            /\ At(col_w', StepTarget) = Max(At(col_w, StepTarget), StepNeed)
            /\ Uncovered >= 0
            /\ Uncovered > 0 => DonorsExhausted'
            /\ SumSeq(col_w') = SumSeq(col_w) + Uncovered
            /\ pc = "split" => SumSeq(col_w') = AvailWidth * UnitsPerMm + Uncovered
      ]_vars

\* Portrait at font 8.2 with 60mm margins, after both calls: the donors
\* are exhausted, the unit-price column has its full need and the widths
\* sum to more than the 90mm between the margins.
C23_Witness ==
    /\ pc = "protected" /\ portrait
    /\ table_font = 82 /\ l_margin = 60
    /\ DonorsExhausted
    /\ At(col_w, NAPPI_COL) = NappiNeed
    /\ At(col_w, UNIT_PRICE_COL) = UnitPriceNeed
    /\ SumSeq(col_w) > AvailWidth * UnitsPerMm

\* The text, the width and the font of the fitted cell.
TariffText == At(rows[1], TARIFF_COL)

TariffWidth == At(col_w, TARIFF_COL)

FitFont == drawn[1].font

TextFitsAtBase == StringWidth(TariffText, table_font) <= UsableWidth(TariffWidth)

\* C24: the font of a fitted cell is at most the table font and at least
\* the minimum cell font 6.0, and it is the table font when the text fits
\* the cell at the table font, for every table font from 5.0 up.
C24_FittedFontOnlyScalesDown ==
    pc = "fitted" =>
        /\ FitFont <= table_font * FontUnitsPerTenth
        /\ FitFont >= min_cell_font * FontUnitsPerTenth
        /\ TextFitsAtBase => FitFont = table_font * FontUnitsPerTenth

\* Ten digits in a 10mm cell at table font 5.0: the text does not fit and
\* the cell gets font 6.0, larger than the table font.
C24_FontRaisedAboveTableFont ==
    /\ pc = "fitted"
    /\ table_font = 50
    /\ TariffText = Rep("0", 10)
    /\ TariffWidth = 10 * UnitsPerMm
    /\ ~TextFitsAtBase
    /\ FitFont = 6000

\* What does hold of the fitted font: with the table font at or above 6.0
\* it lies between 6.0 and the table font; always it is the table font when
\* the text fits and the larger of 6.0 and the scaled font when not.
C24_FittedFontForFontsFrom6 ==
    pc = "fitted" =>
        /\ table_font >= min_cell_font =>
              /\ FitFont <= table_font * FontUnitsPerTenth
              /\ FitFont >= min_cell_font * FontUnitsPerTenth
        /\ TextFitsAtBase => FitFont = table_font * FontUnitsPerTenth
        /\ ~TextFitsAtBase => FitFont >= min_cell_font * FontUnitsPerTenth

(***************************************************************************)
(* Properties of the estimate against the drawing.                         *)
(***************************************************************************)
\* Where the last thing drawn ends.
DrawnEnd == drawn[Len(drawn)].y + drawn[Len(drawn)].h

\* C25: when the loop was left with the estimate within the free height,
\* the header, the rows (each as high as the estimate took it) and the
\* totals line with the gap before it are drawn on the page of the table
\* start and end at or above the page-break trigger.
C25_FittingTableEndsAboveMargin ==
    (portrait /\ pc = "done" /\ EstimateFits) =>
        /\ \A k \in 1..Len(drawn) : ~drawn[k].newpage
        /\ \A i \in 1..Len(rows) :
              RowEntries[i].h = RowHeight(rows[i], col_w, row_h, table_font)
        /\ DrawnEnd <= PageBreakTrigger(portrait, compact)

\* A call whose loop found a fit by shrinking and whose totals line, 0.6mm
\* below the last row, no longer fits above the trigger: FPDF prints it on
\* a new page.
C25_TotalsLinePushedToNewPage ==
    /\ portrait /\ pc = "done" /\ EstimateFits
    /\ iterations > 0
    /\ drawn[Len(drawn)].kind = "totals"
    /\ drawn[Len(drawn)].newpage
    /\ \A k \in 1..(Len(drawn) - 1) : ~drawn[k].newpage

(***************************************************************************)
(* Properties of the VAT rate.                                             *)
(***************************************************************************)
\* The gross the totals are computed from.
GrossOnScreen == GrossOf(TotalTexts(lines))

\* C26: in every state of the form the VAT rate is a decimal with
\* 0 <= rate < 1, and 1 + rate, the divisor of the totals computation, is
\* not zero.
C26_VatRateInUnitRange ==
    /\ RateInUnitRange(vat_rate)
    /\ ~IsZero(DecAdd(One, vat_rate))

\* "-100" typed into the VAT entry: the rate is -1.0000 and recalc_totals
\* divides by zero, the labels keeping what they showed.
C26_DivisionByZero ==
    /\ vat_rate = Dec(TRUE, 10000, 4)
    /\ vat_var = <<"-", "1", "0", "0">>
    /\ RecalcTax(GrossOnScreen, vat_rate).raised

\* "150" typed into the VAT entry: the rate is 1.5 and the totals are
\* computed with it.
C26_RateAboveOne ==
    /\ vat_rate = Dec(FALSE, 15000, 4)
    /\ labels.pct = 150
    /\ labels.total = Dec(FALSE, 10000, 2)
    /\ labels.ex = Dec(FALSE, 4000, 2)

(***************************************************************************)
(* The invoice counter.                                                    *)
(***************************************************************************)
\* C27: the stored invoice counter changes only in a generate_pdf call that
\* wrote the file, and then to a strictly larger value; every other step
\* (peeking into the entry, a cancelled or failed save, loading a draft,
\* resetting the form) leaves it as it was, so it never decreases.
C27_CounterOnlyGrowsOnSave ==
    [][ /\ invoice_counter' >= invoice_counter
        /\ invoice_counter' # invoice_counter
             => /\ pc' = "done"
                /\ messages' = SaveMessages("saved") ]_vars

\* A PDF saved under the number of a loaded draft that was not newer than
\* the counter left the counter alone; one saved under the peeked number
\* advanced it.
C27_Witness ==
    /\ pc = "done"
    /\ messages = SaveMessages("saved")
    /\ invoice_counter = DefaultLastInvoice + 1
    /\ invoice_no = format_invoice_no(DefaultLastInvoice + 2)

\* A save that did not move the counter: the draft's number was not newer.
C27_SavedWithoutChange ==
    /\ pc = "done"
    /\ messages = SaveMessages("saved")
    /\ invoice_counter = DefaultLastInvoice

(***************************************************************************)
(* The update check.                                                       *)
(***************************************************************************)
ManifestComplete == manifest.latest # Empty /\ manifest.win_url # Empty

\* The manifest's version is greater than the running one as a tuple of
\* ints, or is no tuple of ints.
NewerOrUnparsable ==
    LET l == parse_version(manifest.latest)
    IN  \/ ~l.ok
        \/ ~TupleLeq(l.t, parse_version(RunningVersion).t)

\* C28: the installer is started, and the window destroyed, only after the
\* manifest was read with a version and an installer URL, its version found
\* newer than the running one or unparsable, the offer accepted, the file
\* downloaded and, the manifest giving a SHA-256, the file's digest found
\* equal to it; each of these is established with the earlier ones in place,
\* and a file whose digest differs never leads to the launch.
C28_InstallerOnlyAfterAllChecks ==
    [][ /\ (installer_started' /\ ~installer_started)
            => /\ ManifestComplete
               /\ NewerOrUnparsable
               /\ confirmed
               /\ dl_hash # NoFile
               /\ manifest.win_sha # Empty => dl_hash = manifest.win_sha
        /\ (app_closed' /\ ~app_closed) => installer_started'
        /\ (confirmed' /\ ~confirmed) => ManifestComplete /\ NewerOrUnparsable
        /\ (dl_hash' # NoFile /\ dl_hash = NoFile) => confirmed
        /\ (upd_pc' = "launch" /\ manifest.win_sha # Empty)
            => dl_hash # NoFile /\ dl_hash' = manifest.win_sha ]_vars

\* The installer started after a newer version was offered and accepted
\* and the downloaded file matched the SHA-256 of the manifest.
C28_Witness ==
    /\ installer_started
    /\ app_closed
    /\ confirmed
    /\ manifest.win_sha # Empty
    /\ dl_hash = manifest.win_sha
    /\ parse_version(manifest.latest).ok

\* A download whose digest differed: reported, and nothing started.
C28_MismatchReported ==
    /\ upd_pc = "idle"
    /\ ~installer_started
    /\ Len(upd_messages) = 2
    /\ upd_messages[2] = "Downloaded file failed integrity check"

\* The installer started for a manifest whose version is no tuple of ints.
C28_UnparsableVersionInstalled ==
    /\ installer_started
    /\ ~parse_version(manifest.latest).ok

(***************************************************************************)
(* Conservation of the table's width.                                      *)
(***************************************************************************)
\* What the donors of the given widths can give above their floors.
DonorSpare(widths) ==
    SumSeq([k \in 1..Len(donors_portrait) |->
               Max(At(widths, donors_portrait[k]) - DonorFloor, 0)])

\* The donors can cover the deficit of the NAPPI column on the split widths
\* and then that of the unit-price column on the widths the first call left.
DonorsCoverDeficits ==
    LET after_nappi == ProtectNappi(SplitWidths, table_font)
    IN  /\ Max(NappiNeed - At(SplitWidths, NAPPI_COL), 0) <= DonorSpare(SplitWidths)
        /\ Max(UnitPriceNeed - At(after_nappi, UNIT_PRICE_COL), 0)
              <= DonorSpare(after_nappi)

Allocated == pc \in {"protected", "reprotected", "reallocated"}

\* C29: whenever the donors can cover both deficits, the nine widths held
\* after the split and the two protection calls, after their repetition and
\* after every re-allocation that follows a shrinking of the margins, sum to
\* the width between the margins, so that the last column, laid from the left
\* margin, ends at the right margin.
C29_WidthConserved ==
    (Allocated /\ DonorsCoverDeficits)
        => /\ Len(col_w) = 9
           /\ SumSeq(col_w) = AvailWidth * UnitsPerMm
           /\ l_margin * UnitsPerMm + SumSeq(col_w)
                 = (PageWidth(portrait) - r_margin) * UnitsPerMm

\* Portrait at font 8.2 re-allocated with the margins shrunk from 10mm to
\* 9mm: the NAPPI column was raised to its need at the donors' expense.
C29_Witness ==
    /\ pc = "reallocated" /\ portrait
    /\ table_font = 82 /\ l_margin = 9 /\ r_margin = 9
    /\ DonorsCoverDeficits
    /\ At(col_w, NAPPI_COL) > At(SplitWidths, NAPPI_COL)
    /\ At(col_w, 2) < At(SplitWidths, 2)

\* Margins so wide that the donors cannot cover the deficits: the widths
\* sum to more than the width between the margins.
C29_WiderThanPage ==
    /\ Allocated
    /\ ~DonorsCoverDeficits
    /\ SumSeq(col_w) > AvailWidth * UnitsPerMm

\* The same conservation along the shrink loop of a portrait page, where the
\* 10mm and 6mm margins always leave the donors enough to give.
C29_LoopConservesWidth ==
    InPortraitFit => SumSeq(col_w) = AvailWidth * UnitsPerMm

(***************************************************************************)
(* The totals on screen against the lines and the rate.                    *)
(***************************************************************************)
LinesGross == GrossOf(TotalTexts(lines))

\* C30: with ui_ready true and no handler running, the gross shown is the
\* sum of the Total fields of the lines the form holds, and the exclusive
\* and VAT amounts shown are those computed from that gross and the current
\* VAT rate.
C30_ScreenTotalsConsistent ==
    (Quiescent /\ ui_ready)
        => /\ labels.total = fmt_money(LinesGross)
           /\ ~IsZero(DecAdd(One, vat_rate))
                 => /\ labels.ex = fmt_money(RecalcTax(LinesGross, vat_rate).ex)
                    /\ labels.vat = fmt_money(RecalcTax(LinesGross, vat_rate).vat)

\* The gross shown is not the sum of the lines' totals: the rate is -1 and
\* recalc_totals has raised in every handler since it was typed.
C30_StaleGrossOnScreen ==
    /\ Quiescent /\ ui_ready
    /\ IsZero(DecAdd(One, vat_rate))
    /\ labels.total # fmt_money(LinesGross)

\* The same consistency while the rate is one for which the division is
\* defined.
C30_ConsistentWhileRateDivides ==
    (Quiescent /\ ui_ready /\ ~IsZero(DecAdd(One, vat_rate)))
        => /\ labels.total = fmt_money(LinesGross)
           /\ labels.ex = fmt_money(RecalcTax(LinesGross, vat_rate).ex)
           /\ labels.vat = fmt_money(RecalcTax(LinesGross, vat_rate).vat)

====
